---- MODULE Spec2Model ----
(***************************************************************************)
(* Model of the Renesas digital multiphase flash orchestrator              *)
(* (cmd/rendmp/src/lib.rs, fn rendmp, the `--flash` path) together with    *)
(* the device catalog and status decoders it relies on.                    *)
(*                                                                         *)
(* The flash path is one synchronous function.  It blocks in exactly two   *)
(* kinds of places: context.run(...) (one batch, one round trip) and       *)
(* thread::sleep(100ms).  Each action below is the code that runs from one *)
(* such blocking call up to the next one.                                  *)
(*                                                                         *)
(* Indices are kept 0-based as in the source: At(s, i) is s[i] of Rust.    *)
(***************************************************************************)
EXTENDS Integers, Sequences, FiniteSets, TLC

VARIABLES
    pc,        \* position in rendmp(): preflight, write, verify, sleep, done, failed
    hex,       \* the RendmpHex parsed from the file (immutable)
    subargs,   \* the check / force / dryrun modifiers
    results,   \* the outcomes of the preflight batch (lib.rs:931)
    start,     \* lib.rs:1021, index of the first record of the next batch
    max,       \* lib.rs:1021, one past the last record to transmit
    nwritten,  \* lib.rs:1033, payload bytes pushed so far
    bar,       \* position last given to the progress bar (lib.rs:1063)
    written,   \* data indices whose write call was put in a submitted batch
    nbatches,  \* number of write batches submitted to the executor
    polls,     \* number of verify batches submitted to the executor
    elapsed,   \* waiting.elapsed() in milliseconds (lib.rs:1090)
    status,    \* programmer status word of the latest poll (lib.rs:1105)
    err,       \* the message the operation ended with
    errdata,   \* the payload that message names (lib.rs:1069)
    wresults,  \* the outcomes of the latest write batch (lib.rs:1061)
    bankraw,   \* raw bank status bytes of the latest poll (lib.rs:1122)
    arg,       \* the arguments of a library function being called
    ret,       \* what that function returned
    lineno,    \* RendmpHex::from_file: number of file lines consumed
    headers,   \* RendmpHex::from_file: header payloads so far (lib.rs:353)
    hexdata,   \* RendmpHex::from_file: data payloads so far (lib.rs:352)
    recs,      \* kind and length byte of each record pushed so far
    ops,       \* the calls of the batch submitted last (lib.rs:874)
    lap,       \* dump: the lap the loop is at (lib.rs:1195)
    addr,      \* dump: bytes written so far (lib.rs:1169)
    file,      \* dump: the chunks the latest lap wrote to the output file
    state,     \* itm_ingest: SyncSearching or Ingesting (itm.rs:280)
    pstate,    \* itm_ingest: state of the packet in hand (itm.rs:281)
    vec,       \* itm_ingest: payload bytes of the packet in hand (itm.rs:282)
    hdr,       \* itm_ingest: header of the packet in hand (itm.rs:288)
    runlen,    \* itm_ingest: zeros counted while searching (itm.rs:289)
    datum,     \* the byte the latest call of the closure was given
    zeros,     \* how many bytes directly before the next one are 0x00
    ncalls,    \* how many times the callback has been invoked
    packet     \* what the latest byte passed to the callback, if anything

\* the variables of the library functions; the flash path leaves them alone
libvars == <<arg, ret, lineno, headers, hexdata, recs>>

\* the variables of the report and dump operations
dumpvars == <<ops, lap, addr, file>>

\* the variables of the trace ingest
itmvars == <<state, pstate, vec, hdr, runlen, datum, zeros, ncalls, packet>>

vars == <<pc, hex, subargs, results, start, max, nwritten, bar, written,
          nbatches, polls, elapsed, status, err, errdata, wresults, bankraw,
          arg, ret, lineno, headers, hexdata, recs, ops, lap, addr, file,
          state, pstate, vec, hdr, runlen, datum, zeros, ncalls, packet>>

\* ITMHeader::Sync (itm.rs:91) and the absence of a packet
ITMSync == [kind |-> "Sync"]
NoPacket == [header |-> [kind |-> "None"], payload |-> [kind |-> "None"]]

\* itm.rs:280-289, the locals of itm_ingest before the first byte
ItmIdle ==
    /\ state = "SyncSearching"
    /\ pstate = "AwaitingHeader"
    /\ vec = <<>>
    /\ hdr = ITMSync
    /\ runlen = 0
    /\ datum = -1
    /\ zeros = 0
    /\ ncalls = 0
    /\ packet = NoPacket

(***************************************************************************)
(* Bounds of the model                                                     *)
(***************************************************************************)
\* the small image of the spec's dry-run scenario
SmallLen == 10
\* the extra time that may pass between two readings of the clock (a late
\* wake-up from thread::sleep, a slow round trip): longer than the window
SlowPollMs == 2100

(***************************************************************************)
(* Program constants                                                       *)
(***************************************************************************)
MinSlots == 10
MaxSlots == 28
nwrites == 32
DeadlineMs == 2000
SleepMs == 100
NUM_CONFIGS == 1

(***************************************************************************)
(* Plain helpers                                                           *)
(***************************************************************************)
At(s, i) == s[i + 1]

Min(a, b) == IF a < b THEN a ELSE b

\* the 0-based index range lo..hi-1 as a sequence
Range(lo, hi) == [k \in 1..(IF hi > lo THEN hi - lo ELSE 0) |-> lo + k - 1]

Bit(w, n) == (w \div (2 ^ n)) % 2

\* u32::from_le_bytes / u16::from_le_bytes
RECURSIVE from_le_bytes(_)
from_le_bytes(b) ==
    IF b = <<>> THEN 0 ELSE Head(b) + 256 * from_le_bytes(Tail(b))

\* u32::to_le_bytes
to_le_bytes(v) ==
    <<v % 256, (v \div 256) % 256, (v \div 65536) % 256,
      (v \div 16777216) % 256>>

\* Result<Vec<u8>, u32>: one outcome per call of a batch
Ok(bytes) == [ok |-> TRUE, val |-> bytes]
Err(code) == [ok |-> FALSE, val |-> <<code>>]

NoErr == "none"

(***************************************************************************)
(* Device catalog                                                          *)
(***************************************************************************)
RendmpGenTwo ==
    {99, 98, 97, 83, 82, 81, 80, 79, 78, 107, 77, 75, 62, 61, 60, 59, 58,
     57, 67, 66, 102, 64, 65, 88, 89, 72, 71, 109, 103, 56, 55, 70, 110,
     87, 63, 85, 100, 101, 108, 105, 106, 111, 126}

RendmpGenTwoFive == {115, 117, 118, 153}

\* a lookup that knows the first table only
from_id_gen_two_only(id) ==
    IF id \in RendmpGenTwo THEN "RendmpGenTwo" ELSE "unknown"

\* RendmpDevice::from_id: the generation of id, or "unknown"
from_id(id) ==
    IF id \in RendmpGenTwo /\ id \in RendmpGenTwoFive THEN "panic"
    ELSE IF id \in RendmpGenTwo THEN "RendmpGenTwo"
    ELSE IF id \in RendmpGenTwoFive THEN "RendmpGenTwoFive"
    ELSE "unknown"

\* RendmpDevice::lines: the number of record lines of a HEX file
lines(device) ==
    IF device = "RendmpGenTwo" THEN 290 + (358 * NUM_CONFIGS)
    ELSE 273 + (309 * NUM_CONFIGS)

\* RendmpBankStatus::from_u8 on one nibble
\* a decoder with four codes: Reserved is not one of them
RendmpBankStatus_four_codes(nibble) ==
    IF nibble = 8 THEN "CRCMismatchOTP"
    ELSE IF nibble = 4 THEN "CRCMismatchRAM"
    ELSE IF nibble = 1 THEN "BankWritten"
    ELSE IF nibble = 0 THEN "BankUnaffected"
    ELSE "None"

RendmpBankStatus(nibble) ==
    IF nibble = 8 THEN "CRCMismatchOTP"
    ELSE IF nibble = 4 THEN "CRCMismatchRAM"
    ELSE IF nibble = 2 THEN "Reserved"
    ELSE IF nibble = 1 THEN "BankWritten"
    ELSE IF nibble = 0 THEN "BankUnaffected"
    ELSE "None"

\* a classification that looks at the OTP bit before the RAM bit
check_programmer_status_otp_first(word) ==
    IF word % 2 = 1 THEN NoErr
    ELSE IF Bit(word, 6) # 0 THEN "flashing failed: CRC mismatch within OTP data"
    ELSE IF Bit(word, 4) # 0 THEN "flashing failed: CRC mismatch within RAM data"
    ELSE IF Bit(word, 8) # 0 THEN "flashing failed: configurations not available"
    ELSE "flashing failed: unknown failure"

\* RendmpDevice::check_programmer_status: NoErr is Ok(())
check_programmer_status(word) ==
    IF word % 2 = 1 THEN NoErr
    ELSE IF Bit(word, 4) # 0 THEN "flashing failed: CRC mismatch within RAM data"
    ELSE IF Bit(word, 6) # 0 THEN "flashing failed: CRC mismatch within OTP data"
    ELSE IF Bit(word, 8) # 0 THEN "flashing failed: configurations not available"
    ELSE "flashing failed: unknown failure"

\* RendmpDevice::bank_status: the 16 decoded nibbles, low nibble first
bank_status(bytes) ==
    IF Len(bytes) # 8 THEN [err |-> "short bank status", val |-> <<>>]
    ELSE [err |-> NoErr,
          val |-> [k \in 1..16 |->
                     IF k % 2 = 1
                     THEN RendmpBankStatus(bytes[(k + 1) \div 2] % 16)
                     ELSE RendmpBankStatus((bytes[k \div 2] \div 16) % 16)]]

(***************************************************************************)
(* Preflight: Identify, ValidateSlots, ValidateCrc                         *)
(***************************************************************************)
\* the closure word_result (lib.rs:835)
word_result(result, what) ==
    IF ~result.ok THEN [err |-> "failed to read " \o what, val |-> 0]
    ELSE IF Len(result.val) # 4
         THEN [err |-> "bad length on " \o what, val |-> 0]
    ELSE [err |-> NoErr, val |-> from_le_bytes(result.val)]

\* check_device_id without the final comparison of all four bytes
check_device_id_model_byte_only(result, h) ==
    IF ~result.ok THEN "failed to read IC_DEVICE_ID"
    ELSE IF Len(result.val) # 4 THEN "bad length on IC_DEVICE_ID"
    ELSE IF /\ At(result.val, 1) # At(h.ic_device_id, 1)
            /\ from_id(At(result.val, 1)) # "unknown"
         THEN "device mismatch"
    ELSE NoErr

\* the match on results[0] (lib.rs:933)
check_device_id(result, h) ==
    IF ~result.ok THEN "failed to read IC_DEVICE_ID"
    ELSE IF Len(result.val) # 4 THEN "bad length on IC_DEVICE_ID"
    ELSE IF /\ At(result.val, 1) # At(h.ic_device_id, 1)
            /\ from_id(At(result.val, 1)) # "unknown"
         THEN "device mismatch"
    ELSE IF result.val # h.ic_device_id THEN "IC_DEVICE_ID mismatch"
    ELSE NoErr

\* check_slots with the upper bound off by one
check_slots_rejects_max(n) ==
    IF n >= MaxSlots THEN "number of NVM slots is impossibly high; aborting"
    ELSE IF n < MinSlots
         THEN "number of available NVM slots is scarily low; aborting"
    ELSE NoErr

\* the two bounds on nslots (lib.rs:974)
check_slots(n) ==
    IF n > MaxSlots THEN "number of NVM slots is impossibly high; aborting"
    ELSE IF n < MinSlots
         THEN "number of available NVM slots is scarily low; aborting"
    ELSE NoErr

\* check_crc that goes on to write on matching CRCs without --force
check_crc_no_force_needed(crc, h, args) ==
    IF crc = h.crc
    THEN IF args.check THEN [pc |-> "done", err |-> NoErr]
         ELSE [pc |-> "write", err |-> NoErr]
    ELSE IF args.check
         THEN [pc |-> "failed", err |-> "image CRC does not match OTP CRC"]
         ELSE [pc |-> "write", err |-> NoErr]

\* check_crc without the check-only branch for differing CRCs
check_crc_check_writes_on_mismatch(crc, h, args) ==
    IF crc = h.crc
    THEN IF args.check THEN [pc |-> "done", err |-> NoErr]
         ELSE IF ~args.force
              THEN [pc |-> "failed",
                    err |-> "image CRC matches OTP CRC; use --force to force"]
              ELSE [pc |-> "write", err |-> NoErr]
    ELSE [pc |-> "write", err |-> NoErr]

\* check_crc that asks for --force before it looks at check-only
check_crc_force_before_check(crc, h, args) ==
    IF crc = h.crc
    THEN IF ~args.force
         THEN [pc |-> "failed",
               err |-> "image CRC matches OTP CRC; use --force to force"]
         ELSE IF args.check THEN [pc |-> "done", err |-> NoErr]
              ELSE [pc |-> "write", err |-> NoErr]
    ELSE IF args.check
         THEN [pc |-> "failed", err |-> "image CRC does not match OTP CRC"]
         ELSE [pc |-> "write", err |-> NoErr]

\* the CRC comparison (lib.rs:987): where the function goes next
check_crc(crc, h, args) ==
    IF crc = h.crc
    THEN IF args.check THEN [pc |-> "done", err |-> NoErr]
         ELSE IF ~args.force
              THEN [pc |-> "failed",
                    err |-> "image CRC matches OTP CRC; use --force to force"]
              ELSE [pc |-> "write", err |-> NoErr]
    ELSE IF args.check
         THEN [pc |-> "failed", err |-> "image CRC does not match OTP CRC"]
         ELSE [pc |-> "write", err |-> NoErr]

Fail(e) == [pc |-> "failed", err |-> e]

\* preflight_checks that takes the slot count from the outcome before it,
\* the one of the DMAADDR write
preflight_checks_slots_from_write(res, h, args) ==
    LET ide == check_device_id(At(res, 0), h)
        ns  == word_result(At(res, 2), "available slots")
        cr  == word_result(At(res, 5), "CRC")
    IN  IF ide # NoErr THEN Fail(ide)
        ELSE IF ns.err # NoErr THEN Fail(ns.err)
        ELSE IF check_slots(ns.val) # NoErr THEN Fail(check_slots(ns.val))
        ELSE IF cr.err # NoErr THEN Fail(cr.err)
        ELSE check_crc(cr.val, h, args)

\* lib.rs:933-1006, everything between the preflight batch and the writes
preflight_checks(res, h, args) ==
    LET ide == check_device_id(At(res, 0), h)
        ns  == word_result(At(res, 3), "available slots")
        cr  == word_result(At(res, 5), "CRC")
    IN  IF ide # NoErr THEN Fail(ide)
        ELSE IF ns.err # NoErr THEN Fail(ns.err)
        ELSE IF check_slots(ns.val) # NoErr THEN Fail(check_slots(ns.val))
        ELSE IF cr.err # NoErr THEN Fail(cr.err)
        ELSE check_crc(cr.val, h, args)

\* write_range whose dry run starts at the first record
write_range_keeps_first(dryrun, len) ==
    IF dryrun THEN [max |-> len - 1, start |-> 0]
    ELSE [max |-> len, start |-> 0]

\* lib.rs:1021: (max, start) of the records to transmit
write_range(dryrun, len) ==
    IF dryrun THEN [max |-> len - 1, start |-> 1]
    ELSE [max |-> len, start |-> 0]

\* a batch of half the size
batch_indices_sixteen(s, m) == Range(s, Min(s + 16, m))

\* batch_indices with an inclusive upper end: i in start..=start + nwrites
batch_indices_inclusive(s, m) == Range(s, Min(s + nwrites + 1, m))

\* lib.rs:1044: the records put in the batch that begins at s
batch_indices(s, m) == Range(s, Min(s + nwrites, m))

\* lib.rs:1056 altered: every record counts for one
payload_bytes_one_per_record(data, idx) == Len(idx)

RECURSIVE payload_bytes(_, _)
\* lib.rs:1056: the payload bytes of the records idx of data
payload_bytes(data, idx) ==
    IF idx = <<>> THEN 0
    ELSE Len(At(data, Head(idx))) + payload_bytes(data, Tail(idx))

\* lib.rs:1065: index of the first Err among the outcomes, or -1
first_error(res) ==
    IF \A j \in 1..Len(res) : res[j].ok THEN -1
    ELSE (CHOOSE j \in 1..Len(res) :
              ~res[j].ok /\ \A k \in 1..(j - 1) : res[k].ok) - 1

\* verify_poll that reports a timeout of its own once the window is over
verify_poll_generic_timeout(res, now) ==
    LET st == At(res, 1)
        bk == At(res, 3)
        word == from_le_bytes(st.val)
        banks == bank_status(bk.val)
        cls == check_programmer_status(word)
    IN  IF ~st.ok THEN Fail("programmer status failed")
        ELSE IF Len(st.val) # 2 THEN Fail("bad length on status")
        ELSE IF ~bk.ok THEN Fail("bank status failed")
        ELSE IF banks.err # NoErr THEN Fail(banks.err)
        ELSE IF \E k \in 1..16 : banks.val[k] = "None" THEN Fail("bank invalid")
        ELSE IF cls = NoErr THEN [pc |-> "done", err |-> NoErr]
        ELSE IF now > DeadlineMs THEN Fail("timed out waiting for programmer")
        ELSE [pc |-> "sleep", err |-> NoErr]

\* verify_poll that gives up on the first classified failure
verify_poll_no_retry(res, now) ==
    LET st == At(res, 1)
        bk == At(res, 3)
        word == from_le_bytes(st.val)
        banks == bank_status(bk.val)
        cls == check_programmer_status(word)
    IN  IF ~st.ok THEN Fail("programmer status failed")
        ELSE IF Len(st.val) # 2 THEN Fail("bad length on status")
        ELSE IF ~bk.ok THEN Fail("bank status failed")
        ELSE IF banks.err # NoErr THEN Fail(banks.err)
        ELSE IF \E k \in 1..16 : banks.val[k] = "None" THEN Fail("bank invalid")
        ELSE IF cls = NoErr THEN [pc |-> "done", err |-> NoErr]
        ELSE Fail(cls)

\* lib.rs:1105-1151: what one verify poll, read at time now, leads to
\* a poll that does not look for undecodable banks
verify_poll_banks_unchecked(res, now) ==
    LET st == At(res, 1)
        bk == At(res, 3)
        word == from_le_bytes(st.val)
        banks == bank_status(bk.val)
        cls == check_programmer_status(word)
    IN  IF ~st.ok THEN Fail("programmer status failed")
        ELSE IF Len(st.val) # 2 THEN Fail("bad length on status")
        ELSE IF ~bk.ok THEN Fail("bank status failed")
        ELSE IF banks.err # NoErr THEN Fail(banks.err)
        ELSE IF cls = NoErr THEN [pc |-> "done", err |-> NoErr]
        ELSE IF now > DeadlineMs THEN Fail(cls)
        ELSE [pc |-> "sleep", err |-> NoErr]

verify_poll(res, now) ==
    LET st == At(res, 1)
        bk == At(res, 3)
        word == from_le_bytes(st.val)
        banks == bank_status(bk.val)
        cls == check_programmer_status(word)
    IN  IF ~st.ok THEN Fail("programmer status failed")
        ELSE IF Len(st.val) # 2 THEN Fail("bad length on status")
        ELSE IF ~bk.ok THEN Fail("bank status failed")
        ELSE IF banks.err # NoErr THEN Fail(banks.err)
        ELSE IF \E k \in 1..16 : banks.val[k] = "None" THEN Fail("bank invalid")
        ELSE IF cls = NoErr THEN [pc |-> "done", err |-> NoErr]
        ELSE IF now > DeadlineMs THEN Fail(cls)
        ELSE [pc |-> "sleep", err |-> NoErr]

\* The calls of a batch, in the order the operations push them; the
\* executor returns one outcome per call, in this order.
\* lib.rs:851: the two calls of an indirect read of the word at `what`
dmaread_calls(what) ==
    <<[fn |-> "i2c_write", reg |-> "DMAADDR", of |-> what],
      [fn |-> "i2c_read", reg |-> "DMASEQ", of |-> what]>>

\* lib.rs:906-930: the calls of the preflight batch
preflight_calls ==
    <<[fn |-> "i2c_read", reg |-> "IC_DEVICE_ID", of |-> "block"],
      [fn |-> "i2c_read", reg |-> "IC_DEVICE_REV", of |-> "block"]>>
    \o dmaread_calls("slot_addr") \o dmaread_calls("crc_addr")

\* lib.rs:1099-1100: the calls of a verify batch
verify_calls ==
    dmaread_calls("programmer_status_addr")
    \o dmaread_calls("bank_status_addr")

(***************************************************************************)
(* Inputs: the images, the modifiers and what the executor may return      *)
(***************************************************************************)
\* the payload of data record i: a command code and up to two data bytes
Payload(i) == [k \in 1..(1 + (i % 3)) |-> (i + 7 * k) % 256]

\* a RendmpHex for the device with identifier id holding n data records
MkHex(id, crc, n) ==
    [device |-> from_id(id),
     ic_device_id |-> <<0, id, 210, 73>>,
     ic_device_rev |-> <<3, 0, 0, 6>>,
     crc |-> crc,
     data |-> [i \in 1..n |-> Payload(i - 1)]]

ImageCrc == 305419896

\* the data-record counts: the spec's dry-run scenario, two batches and a
\* bit, and a full GenTwo image with its two headers
Images ==
    {MkHex(82, ImageCrc, SmallLen),
     MkHex(115, ImageCrc, 2 * nwrites + 2),
     MkHex(82, ImageCrc, lines("RendmpGenTwo") - 2)}

Modifiers == [check : BOOLEAN, force : BOOLEAN, dryrun : BOOLEAN]

\* s with the byte at 0-based position i replaced by b
WithByte(s, i, b) == [s EXCEPT ![i + 1] = b]

\* what the IC_DEVICE_ID block read may return against image h
IdOutcomes(h) ==
    {Err(1), Ok(h.ic_device_id), Ok(SubSeq(h.ic_device_id, 1, 3)),
     Ok(h.ic_device_id \o <<0>>),
     Ok(WithByte(h.ic_device_id, 0, 1)),
     Ok(WithByte(h.ic_device_id, 1, 117)),
     Ok(WithByte(h.ic_device_id, 1, 99)),
     Ok(WithByte(h.ic_device_id, 1, 255)),
     Ok(WithByte(h.ic_device_id, 2, 211)),
     Ok(WithByte(h.ic_device_id, 3, 74))}

\* the slot counts the device may report; the top byte stays below 128 so
\* that the 32-bit word fits TLC's 32-bit integers
SlotCounts == {0, 9, 10, 28, 29, 266, 2147483647}

SlotOutcomes ==
    {Err(2), Ok(<<10, 0, 0>>)} \cup {Ok(to_le_bytes(n)) : n \in SlotCounts}

CrcOutcomes(h) ==
    {Err(3), Ok(<<0, 0, 0, 0, 0>>), Ok(to_le_bytes(h.crc)),
     Ok(to_le_bytes(h.crc + 16777216))}

\* the calls whose outcome the flash path never looks at: the revision read
\* and the two DMAADDR writes; at most one of them is refused
IgnoredOutcomes ==
    {<<Ok(<<3, 0, 0, 6>>), Ok(<<>>), Ok(<<>>)>>,
     <<Err(4), Ok(<<>>), Ok(<<>>)>>,
     <<Ok(<<3, 0, 0, 6>>), Err(5), Ok(<<>>)>>,
     <<Ok(<<3, 0, 0, 6>>), Ok(<<>>), Err(5)>>}

\* the six outcomes of the preflight batch, in call order (lib.rs:906-930)
PreflightResults(h) ==
    {<<id, ig[1], ig[2], sl, ig[3], cr>> :
        id \in IdOutcomes(h), ig \in IgnoredOutcomes,
        sl \in SlotOutcomes, cr \in CrcOutcomes(h)}

\* the outcomes of a batch of n record writes: the writes at the batch
\* positions in F are refused
WriteResults(n) ==
    {[j \in 1..n |-> IF j \in F THEN Err(6) ELSE Ok(<<>>)] :
        F \in SUBSET ({1, 2, n} \cap (1..n))}

StatusOutcomes ==
    {Err(7), Ok(<<1>>)} \cup
    {Ok(<<w % 256, w \div 256>>) : w \in {1, 17, 16, 64}}

ZeroBanks == <<0, 0, 0, 0, 0, 0, 0, 0>>

BankOutcomes ==
    {Err(8), Ok(SubSeq(ZeroBanks, 1, 7)), Ok(ZeroBanks),
     Ok(WithByte(ZeroBanks, 0, 17)), Ok(WithByte(ZeroBanks, 3, 48))}

\* the four outcomes of one verify batch, in call order (lib.rs:1099-1100)
VerifyResults ==
    {<<sa[1], st, sa[2], bk>> :
        sa \in {<<Ok(<<>>), Ok(<<>>)>>, <<Err(5), Ok(<<>>)>>,
                <<Ok(<<>>), Err(5)>>},
        st \in StatusOutcomes, bk \in BankOutcomes}

RunError == "context.run failed"

(***************************************************************************)
(* The flash path                                                          *)
(***************************************************************************)
Init ==
    /\ pc = "preflight"
    /\ hex \in Images
    /\ subargs \in Modifiers
    /\ results = <<>>
    /\ start = 0
    /\ max = 0
    /\ nwritten = 0
    /\ bar = 0
    /\ written = <<>>
    /\ nbatches = 0
    /\ polls = 0
    /\ elapsed = 0
    /\ status = 0
    /\ err = NoErr
    /\ errdata = <<>>
    /\ wresults = <<>>
    /\ bankraw = <<>>
    /\ arg = <<>>
    /\ ret = <<>>
    /\ lineno = 0
    /\ headers = <<>>
    /\ hexdata = <<>>
    /\ recs = <<>>
    /\ ops = <<>>
    /\ lap = 0
    /\ addr = 0
    /\ file = <<>>
    /\ ItmIdle

\* lib.rs:906-1033: the preflight batch and the three validations
Preflight ==
    /\ pc = "preflight"
    /\ \/ /\ pc' = "failed"
          /\ err' = RunError
          /\ UNCHANGED <<results, start, max>>
       \/ \E res \in PreflightResults(hex) :
            LET out == preflight_checks(res, hex, subargs)
                rng == write_range(subargs.dryrun, Len(hex.data))
            IN  /\ results' = res
                /\ pc' = out.pc
                /\ err' = out.err
                /\ IF out.pc = "write"
                   THEN start' = rng.start /\ max' = rng.max
                   ELSE UNCHANGED <<start, max>>
    /\ UNCHANGED <<hex, subargs, nwritten, bar, written, nbatches, polls,
                   elapsed, status, errdata, wresults, bankraw>>
    /\ UNCHANGED libvars
    /\ UNCHANGED dumpvars
    /\ UNCHANGED itmvars

\* lib.rs:1041-1090: one iteration of the write loop
WriteBatch ==
    /\ pc = "write"
    /\ LET idx == batch_indices(start, max)
       IN  /\ written' = written \o idx
           /\ nbatches' = nbatches + 1
           /\ nwritten' = nwritten + payload_bytes(hex.data, idx)
           /\ \/ /\ pc' = "failed"
                 /\ err' = RunError
                 /\ UNCHANGED <<bar, start, errdata, wresults>>
              \/ \E res \in WriteResults(Len(idx)) :
                   LET ndx == first_error(res)
                   IN  /\ wresults' = res
                       /\ bar' = nwritten'
                       /\ IF ndx >= 0
                          THEN /\ pc' = "failed"
                               /\ err' = "failed to write"
                               /\ errdata' = At(hex.data, start + ndx)
                               /\ UNCHANGED start
                          ELSE /\ start' = start + nwrites
                               /\ pc' = IF start' >= max THEN "verify"
                                        ELSE "write"
                               /\ UNCHANGED <<err, errdata>>
    /\ UNCHANGED <<hex, subargs, results, max, polls, elapsed, status, bankraw>>
    /\ UNCHANGED libvars
    /\ UNCHANGED dumpvars
    /\ UNCHANGED itmvars

\* lib.rs:1096-1151: one verify batch and the decoding of its outcomes.
\* The clock is read once per iteration (lib.rs:1147); `took` is the time
\* that passed since the previous reading on top of the 100ms of the sleep.
\* status and bankraw are the `let status` and the bank status bytes of
\* this iteration: 0 and <<>> until the code gets to them.
VerifyPoll ==
    /\ pc = "verify"
    /\ polls' = polls + 1
    /\ \E took \in {0, SlowPollMs} :
         /\ elapsed' = elapsed + took
         /\ \/ /\ pc' = "failed"
               /\ err' = RunError
               /\ status' = 0
               /\ bankraw' = <<>>
            \/ \E res \in VerifyResults :
                 LET out == verify_poll(res, elapsed')
                     bound == At(res, 1).ok /\ Len(At(res, 1).val) = 2
                 IN  /\ pc' = out.pc
                     /\ err' = out.err
                     /\ status' = IF bound THEN from_le_bytes(At(res, 1).val)
                                  ELSE 0
                     /\ bankraw' = IF bound /\ At(res, 3).ok
                                   THEN At(res, 3).val
                                   ELSE <<>>
    /\ UNCHANGED <<hex, subargs, results, start, max, nwritten, bar, written,
                   nbatches, errdata, wresults>>
    /\ UNCHANGED libvars
    /\ UNCHANGED dumpvars
    /\ UNCHANGED itmvars

\* a wake-up that goes back to the write loop
Sleep_back_to_write ==
    /\ pc = "sleep"
    /\ pc' = "write"
    /\ elapsed' = elapsed + SleepMs
    /\ status' = 0
    /\ bankraw' = <<>>
    /\ UNCHANGED <<hex, subargs, results, start, max, nwritten, bar, written,
                   nbatches, polls, err, errdata, wresults>>
    /\ UNCHANGED libvars
    /\ UNCHANGED dumpvars
    /\ UNCHANGED itmvars

\* a sleep during which the clock stands still
Sleep_clock_stopped ==
    /\ pc = "sleep"
    /\ pc' = "verify"
    /\ status' = 0
    /\ bankraw' = <<>>
    /\ UNCHANGED <<hex, subargs, results, start, max, nwritten, bar, written,
                   nbatches, polls, elapsed, err, errdata, wresults>>
    /\ UNCHANGED libvars
    /\ UNCHANGED dumpvars
    /\ UNCHANGED itmvars

\* lib.rs:1153: thread::sleep(100ms), then the next iteration of the loop
Sleep ==
    /\ pc = "sleep"
    /\ elapsed' = elapsed + SleepMs
    /\ pc' = "verify"
    /\ status' = 0
    /\ bankraw' = <<>>
    /\ UNCHANGED <<hex, subargs, results, start, max, nwritten, bar, written,
                   nbatches, polls, err, errdata, wresults>>
    /\ UNCHANGED libvars
    /\ UNCHANGED dumpvars
    /\ UNCHANGED itmvars

Next == Preflight \/ WriteBatch \/ VerifyPoll \/ Sleep

Spec == Init /\ [][Next]_vars

\* lib.rs:1090: the states in which the Verify phase is entered, `waiting`
\* just sampled, after the one write batch of the small image went through
VerifyInit ==
    /\ pc = "verify"
    /\ hex = MkHex(82, ImageCrc, SmallLen)
    /\ subargs \in {m \in Modifiers : ~m.check}
    /\ results \in {r \in PreflightResults(hex) :
                       preflight_checks(r, hex, subargs).pc = "write"}
    /\ LET rng == write_range(subargs.dryrun, Len(hex.data))
           idx == batch_indices(rng.start, rng.max)
       IN  /\ start = rng.start + nwrites
           /\ max = rng.max
           /\ written = idx
           /\ nwritten = payload_bytes(hex.data, idx)
           /\ bar = nwritten
           /\ wresults = [j \in 1..Len(idx) |-> Ok(<<>>)]
    /\ nbatches = 1
    /\ polls = 0
    /\ elapsed = 0
    /\ status = 0
    /\ err = NoErr
    /\ errdata = <<>>
    /\ bankraw = <<>>
    /\ arg = <<>>
    /\ ret = <<>>
    /\ lineno = 0
    /\ headers = <<>>
    /\ hexdata = <<>>
    /\ recs = <<>>
    /\ ops = <<>>
    /\ lap = 0
    /\ addr = 0
    /\ file = <<>>
    /\ ItmIdle

\* lib.rs:1096-1154: the verify loop
VerifyNext == VerifyPoll \/ Sleep

\* The Verify phase on its own. context.run returns and thread::sleep wakes
\* up, so a step of the loop that can be taken is taken.
VerifySpec == VerifyInit /\ [][VerifyNext]_vars /\ WF_vars(VerifyNext)

(***************************************************************************)
(* The device catalog and the status decoders as library functions         *)
(***************************************************************************)
\* the variants of RendmpGenTwo and RendmpGenTwoFive (lib.rs:120-173): the
\* letters of the name, its number and the discriminant
Variants ==
    {<<"ISL", 68220, 99>>, <<"ISL", 68221, 98>>, <<"ISL", 68222, 97>>,
     <<"ISL", 68223, 83>>, <<"ISL", 68224, 82>>, <<"ISL", 68225, 81>>,
     <<"ISL", 68226, 80>>, <<"ISL", 68227, 79>>, <<"ISL", 68229, 78>>,
     <<"ISL", 68233, 107>>, <<"ISL", 68236, 77>>, <<"ISL", 68239, 75>>,
     <<"ISL", 69222, 62>>, <<"ISL", 69223, 61>>, <<"ISL", 69224, 60>>,
     <<"ISL", 69225, 59>>, <<"ISL", 69227, 58>>, <<"ISL", 69228, 57>>,
     <<"ISL", 69234, 67>>, <<"ISL", 69236, 66>>, <<"ISL", 69237, 102>>,
     <<"ISL", 69238, 64>>, <<"ISL", 69239, 65>>, <<"ISL", 69242, 88>>,
     <<"ISL", 69243, 89>>, <<"ISL", 69247, 72>>, <<"ISL", 69248, 71>>,
     <<"ISL", 69249, 109>>, <<"ISL", 69254, 103>>, <<"ISL", 69255, 56>>,
     <<"ISL", 69256, 55>>, <<"ISL", 69259, 70>>, <<"ISL", 69260, 110>>,
     <<"ISL", 69267, 87>>, <<"ISL", 69268, 63>>, <<"ISL", 69269, 85>>,
     <<"RAA", 228000, 100>>, <<"RAA", 228004, 101>>, <<"RAA", 228006, 108>>,
     <<"RAA", 229001, 105>>, <<"RAA", 229004, 106>>, <<"RAA", 229022, 111>>,
     <<"RAA", 229126, 126>>, <<"RAA", 228218, 115>>, <<"RAA", 228227, 117>>,
     <<"RAA", 228228, 118>>, <<"RAA", 229618, 153>>}

Letters(prefix) == IF prefix = "ISL" THEN <<73, 83, 76>> ELSE <<82, 65, 65>>

\* a number in decimal, as character codes
RECURSIVE Digits(_)
Digits(n) ==
    IF n < 10 THEN <<48 + n>> ELSE Digits(n \div 10) \o <<48 + (n % 10)>>

\* Display for RendmpDevice (lib.rs:181-188): the Debug form of the variant,
\* which is its name, as character codes
fmt(id) ==
    LET v == CHOOSE v \in Variants : v[3] = id
    IN  Letters(v[1]) \o Digits(v[2])

\* the simple upper-case mappings of the characters outside ASCII (Unicode
\* 17): each entry is a first and a last character, the distance between
\* the characters it covers and what is added to a character to get its
\* upper case
UpperRanges ==
    {<<181, 181, 1, 743>>, <<224, 246, 1, -32>>, <<248, 254, 1, -32>>,
     <<255, 255, 1, 121>>, <<257, 303, 2, -1>>, <<305, 305, 1, -232>>,
     <<307, 311, 2, -1>>, <<314, 328, 2, -1>>, <<331, 375, 2, -1>>,
     <<378, 382, 2, -1>>, <<383, 383, 1, -300>>, <<384, 384, 1, 195>>,
     <<387, 389, 2, -1>>, <<392, 392, 1, -1>>, <<396, 396, 1, -1>>,
     <<402, 402, 1, -1>>, <<405, 405, 1, 97>>, <<409, 409, 1, -1>>,
     <<410, 410, 1, 163>>, <<411, 411, 1, 42561>>, <<414, 414, 1, 130>>,
     <<417, 421, 2, -1>>, <<424, 424, 1, -1>>, <<429, 429, 1, -1>>,
     <<432, 432, 1, -1>>, <<436, 438, 2, -1>>, <<441, 441, 1, -1>>,
     <<445, 445, 1, -1>>, <<447, 447, 1, 56>>, <<453, 453, 1, -1>>,
     <<454, 454, 1, -2>>, <<456, 456, 1, -1>>, <<457, 457, 1, -2>>,
     <<459, 459, 1, -1>>, <<460, 460, 1, -2>>, <<462, 476, 2, -1>>,
     <<477, 477, 1, -79>>, <<479, 495, 2, -1>>, <<498, 498, 1, -1>>,
     <<499, 499, 1, -2>>, <<501, 501, 1, -1>>, <<505, 543, 2, -1>>,
     <<547, 563, 2, -1>>, <<572, 572, 1, -1>>, <<575, 576, 1, 10815>>,
     <<578, 578, 1, -1>>, <<583, 591, 2, -1>>, <<592, 592, 1, 10783>>,
     <<593, 593, 1, 10780>>, <<594, 594, 1, 10782>>, <<595, 595, 1, -210>>,
     <<596, 596, 1, -206>>, <<598, 599, 1, -205>>, <<601, 601, 1, -202>>,
     <<603, 603, 1, -203>>, <<604, 604, 1, 42319>>, <<608, 608, 1, -205>>,
     <<609, 609, 1, 42315>>, <<611, 611, 1, -207>>, <<612, 612, 1, 42343>>,
     <<613, 613, 1, 42280>>, <<614, 614, 1, 42308>>, <<616, 616, 1, -209>>,
     <<617, 617, 1, -211>>, <<618, 618, 1, 42308>>, <<619, 619, 1, 10743>>,
     <<620, 620, 1, 42305>>, <<623, 623, 1, -211>>, <<625, 625, 1, 10749>>,
     <<626, 626, 1, -213>>, <<629, 629, 1, -214>>, <<637, 637, 1, 10727>>,
     <<640, 640, 1, -218>>, <<642, 642, 1, 42307>>, <<643, 643, 1, -218>>,
     <<647, 647, 1, 42282>>, <<648, 648, 1, -218>>, <<649, 649, 1, -69>>,
     <<650, 651, 1, -217>>, <<652, 652, 1, -71>>, <<658, 658, 1, -219>>,
     <<669, 669, 1, 42261>>, <<670, 670, 1, 42258>>, <<837, 837, 1, 84>>,
     <<881, 883, 2, -1>>, <<887, 887, 1, -1>>, <<891, 893, 1, 130>>,
     <<940, 940, 1, -38>>, <<941, 943, 1, -37>>, <<945, 961, 1, -32>>,
     <<962, 962, 1, -31>>, <<963, 971, 1, -32>>, <<972, 972, 1, -64>>,
     <<973, 974, 1, -63>>, <<976, 976, 1, -62>>, <<977, 977, 1, -57>>,
     <<981, 981, 1, -47>>, <<982, 982, 1, -54>>, <<983, 983, 1, -8>>,
     <<985, 1007, 2, -1>>, <<1008, 1008, 1, -86>>, <<1009, 1009, 1, -80>>,
     <<1010, 1010, 1, 7>>, <<1011, 1011, 1, -116>>, <<1013, 1013, 1, -96>>,
     <<1016, 1016, 1, -1>>, <<1019, 1019, 1, -1>>, <<1072, 1103, 1, -32>>,
     <<1104, 1119, 1, -80>>, <<1121, 1153, 2, -1>>, <<1163, 1215, 2, -1>>,
     <<1218, 1230, 2, -1>>, <<1231, 1231, 1, -15>>, <<1233, 1327, 2, -1>>,
     <<1377, 1414, 1, -48>>, <<4304, 4346, 1, 3008>>,
     <<4349, 4351, 1, 3008>>, <<5112, 5117, 1, -8>>,
     <<7296, 7296, 1, -6254>>, <<7297, 7297, 1, -6253>>,
     <<7298, 7298, 1, -6244>>, <<7299, 7300, 1, -6242>>,
     <<7301, 7301, 1, -6243>>, <<7302, 7302, 1, -6236>>,
     <<7303, 7303, 1, -6181>>, <<7304, 7304, 1, 35266>>,
     <<7306, 7306, 1, -1>>, <<7545, 7545, 1, 35332>>,
     <<7549, 7549, 1, 3814>>, <<7566, 7566, 1, 35384>>,
     <<7681, 7829, 2, -1>>, <<7835, 7835, 1, -59>>, <<7841, 7935, 2, -1>>,
     <<7936, 7943, 1, 8>>, <<7952, 7957, 1, 8>>, <<7968, 7975, 1, 8>>,
     <<7984, 7991, 1, 8>>, <<8000, 8005, 1, 8>>, <<8017, 8023, 2, 8>>,
     <<8032, 8039, 1, 8>>, <<8048, 8049, 1, 74>>, <<8050, 8053, 1, 86>>,
     <<8054, 8055, 1, 100>>, <<8056, 8057, 1, 128>>, <<8058, 8059, 1, 112>>,
     <<8060, 8061, 1, 126>>, <<8112, 8113, 1, 8>>, <<8126, 8126, 1, -7205>>,
     <<8144, 8145, 1, 8>>, <<8160, 8161, 1, 8>>, <<8165, 8165, 1, 7>>,
     <<8526, 8526, 1, -28>>, <<8560, 8575, 1, -16>>, <<8580, 8580, 1, -1>>,
     <<9424, 9449, 1, -26>>, <<11312, 11359, 1, -48>>,
     <<11361, 11361, 1, -1>>, <<11365, 11365, 1, -10795>>,
     <<11366, 11366, 1, -10792>>, <<11368, 11372, 2, -1>>,
     <<11379, 11379, 1, -1>>, <<11382, 11382, 1, -1>>,
     <<11393, 11491, 2, -1>>, <<11500, 11502, 2, -1>>,
     <<11507, 11507, 1, -1>>, <<11520, 11557, 1, -7264>>,
     <<11559, 11559, 1, -7264>>, <<11565, 11565, 1, -7264>>,
     <<42561, 42605, 2, -1>>, <<42625, 42651, 2, -1>>,
     <<42787, 42799, 2, -1>>, <<42803, 42863, 2, -1>>,
     <<42874, 42876, 2, -1>>, <<42879, 42887, 2, -1>>,
     <<42892, 42892, 1, -1>>, <<42897, 42899, 2, -1>>,
     <<42900, 42900, 1, 48>>, <<42903, 42921, 2, -1>>,
     <<42933, 42947, 2, -1>>, <<42952, 42954, 2, -1>>,
     <<42957, 42971, 2, -1>>, <<42998, 42998, 1, -1>>,
     <<43859, 43859, 1, -928>>, <<43888, 43967, 1, -38864>>,
     <<65345, 65370, 1, -32>>, <<66600, 66639, 1, -40>>,
     <<66776, 66811, 1, -40>>, <<66967, 66977, 1, -39>>,
     <<66979, 66993, 1, -39>>, <<66995, 67001, 1, -39>>,
     <<67003, 67004, 1, -39>>, <<68800, 68850, 1, -64>>,
     <<68976, 68997, 1, -32>>, <<71872, 71903, 1, -32>>,
     <<93792, 93823, 1, -32>>, <<93883, 93907, 1, -27>>,
     <<125218, 125251, 1, -34>>}

\* the characters whose upper case is more than one character (sharp s,
\* the ligatures, ...)
UpperSpecial ==
    {<<223, <<83, 83>>>>, <<329, <<700, 78>>>>, <<496, <<74, 780>>>>,
     <<912, <<921, 776, 769>>>>, <<944, <<933, 776, 769>>>>,
     <<1415, <<1333, 1362>>>>, <<7830, <<72, 817>>>>, <<7831, <<84, 776>>>>,
     <<7832, <<87, 778>>>>, <<7833, <<89, 778>>>>, <<7834, <<65, 702>>>>,
     <<8016, <<933, 787>>>>, <<8018, <<933, 787, 768>>>>,
     <<8020, <<933, 787, 769>>>>, <<8022, <<933, 787, 834>>>>,
     <<8064, <<7944, 921>>>>, <<8065, <<7945, 921>>>>,
     <<8066, <<7946, 921>>>>, <<8067, <<7947, 921>>>>,
     <<8068, <<7948, 921>>>>, <<8069, <<7949, 921>>>>,
     <<8070, <<7950, 921>>>>, <<8071, <<7951, 921>>>>,
     <<8072, <<7944, 921>>>>, <<8073, <<7945, 921>>>>,
     <<8074, <<7946, 921>>>>, <<8075, <<7947, 921>>>>,
     <<8076, <<7948, 921>>>>, <<8077, <<7949, 921>>>>,
     <<8078, <<7950, 921>>>>, <<8079, <<7951, 921>>>>,
     <<8080, <<7976, 921>>>>, <<8081, <<7977, 921>>>>,
     <<8082, <<7978, 921>>>>, <<8083, <<7979, 921>>>>,
     <<8084, <<7980, 921>>>>, <<8085, <<7981, 921>>>>,
     <<8086, <<7982, 921>>>>, <<8087, <<7983, 921>>>>,
     <<8088, <<7976, 921>>>>, <<8089, <<7977, 921>>>>,
     <<8090, <<7978, 921>>>>, <<8091, <<7979, 921>>>>,
     <<8092, <<7980, 921>>>>, <<8093, <<7981, 921>>>>,
     <<8094, <<7982, 921>>>>, <<8095, <<7983, 921>>>>,
     <<8096, <<8040, 921>>>>, <<8097, <<8041, 921>>>>,
     <<8098, <<8042, 921>>>>, <<8099, <<8043, 921>>>>,
     <<8100, <<8044, 921>>>>, <<8101, <<8045, 921>>>>,
     <<8102, <<8046, 921>>>>, <<8103, <<8047, 921>>>>,
     <<8104, <<8040, 921>>>>, <<8105, <<8041, 921>>>>,
     <<8106, <<8042, 921>>>>, <<8107, <<8043, 921>>>>,
     <<8108, <<8044, 921>>>>, <<8109, <<8045, 921>>>>,
     <<8110, <<8046, 921>>>>, <<8111, <<8047, 921>>>>,
     <<8114, <<8122, 921>>>>, <<8115, <<913, 921>>>>, <<8116, <<902, 921>>>>,
     <<8118, <<913, 834>>>>, <<8119, <<913, 834, 921>>>>,
     <<8124, <<913, 921>>>>, <<8130, <<8138, 921>>>>, <<8131, <<919, 921>>>>,
     <<8132, <<905, 921>>>>, <<8134, <<919, 834>>>>,
     <<8135, <<919, 834, 921>>>>, <<8140, <<919, 921>>>>,
     <<8146, <<921, 776, 768>>>>, <<8147, <<921, 776, 769>>>>,
     <<8150, <<921, 834>>>>, <<8151, <<921, 776, 834>>>>,
     <<8162, <<933, 776, 768>>>>, <<8163, <<933, 776, 769>>>>,
     <<8164, <<929, 787>>>>, <<8166, <<933, 834>>>>,
     <<8167, <<933, 776, 834>>>>, <<8178, <<8186, 921>>>>,
     <<8179, <<937, 921>>>>, <<8180, <<911, 921>>>>, <<8182, <<937, 834>>>>,
     <<8183, <<937, 834, 921>>>>, <<8188, <<937, 921>>>>,
     <<64256, <<70, 70>>>>, <<64257, <<70, 73>>>>, <<64258, <<70, 76>>>>,
     <<64259, <<70, 70, 73>>>>, <<64260, <<70, 70, 76>>>>,
     <<64261, <<83, 84>>>>, <<64262, <<83, 84>>>>, <<64275, <<1348, 1350>>>>,
     <<64276, <<1348, 1333>>>>, <<64277, <<1348, 1339>>>>,
     <<64278, <<1358, 1350>>>>, <<64279, <<1348, 1341>>>>}

\* char::to_uppercase
upper_char(c) ==
    IF c < 128 THEN (IF c >= 97 /\ c <= 122 THEN <<c - 32>> ELSE <<c>>)
    ELSE LET special == {x \in UpperSpecial : x[1] = c}
             simple == {x \in UpperRanges :
                           c >= x[1] /\ c <= x[2] /\ (c - x[1]) % x[3] = 0}
         IN  IF special # {} THEN (CHOOSE x \in special : TRUE)[2]
             ELSE IF simple # {} THEN <<c + (CHOOSE x \in simple : TRUE)[4]>>
             ELSE <<c>>

\* str::to_uppercase
RECURSIVE to_uppercase(_)
to_uppercase(s) ==
    IF s = <<>> THEN <<>> ELSE upper_char(Head(s)) \o to_uppercase(Tail(s))

NoMatch == "does not match a Renesas DMP device"

\* a lookup that compares the name as given
from_str_case_sensitive(device) ==
    LET stops == {i \in 0..254 :
                    \/ from_id(i) = "panic"
                    \/ from_id(i) # "unknown" /\ device = fmt(i)}
        i == CHOOSE i \in stops : \A j \in stops : i <= j
    IN  IF stops = {} THEN [err |-> NoMatch, device |-> "unknown", id |-> 0]
        ELSE IF from_id(i) = "panic"
             THEN [err |-> "panic", device |-> "unknown", id |-> i]
        ELSE [err |-> NoErr, device |-> from_id(i), id |-> i]

\* RendmpDevice::from_str (lib.rs:232-244): the first id in 0..254 whose
\* device has the searched name; an id in both tables panics on the way
from_str(device) ==
    LET search == to_uppercase(device)
        stops == {i \in 0..254 :
                    \/ from_id(i) = "panic"
                    \/ from_id(i) # "unknown" /\ search = fmt(i)}
        i == CHOOSE i \in stops : \A j \in stops : i <= j
    IN  IF stops = {} THEN [err |-> NoMatch, device |-> "unknown", id |-> 0]
        ELSE IF from_id(i) = "panic"
             THEN [err |-> "panic", device |-> "unknown", id |-> i]
        ELSE [err |-> NoErr, device |-> from_id(i), id |-> i]

\* ---- inputs of the library functions ----
lower_name(s) ==
    [k \in 1..Len(s) |-> IF s[k] >= 65 /\ s[k] <= 90 THEN s[k] + 32 ELSE s[k]]

mixed_name(s) ==
    [k \in 1..Len(s) |->
        IF k % 2 = 0 /\ s[k] >= 65 /\ s[k] <= 90 THEN s[k] + 32 ELSE s[k]]

\* a name with its I and S written as dotless i and long s
turkic_name(s) ==
    [k \in 1..Len(s) |->
        IF s[k] = 73 THEN 305 ELSE IF s[k] = 83 THEN 383 ELSE s[k]]

\* every display name in upper, lower and mixed case, and strings around it
\* that are no name: shortened, lengthened, led by a space, last digit
\* changed, the other family's letters, sharp s for the S, the empty string
Names ==
    UNION {LET n == fmt(v[3])
               m == Len(n)
           IN  {n, lower_name(n), mixed_name(n), turkic_name(n),
                SubSeq(n, 1, m - 1), n \o <<48>>, <<32>> \o n,
                [n EXCEPT ![m] = 48 + ((n[m] - 47) % 10)],
                Letters(IF v[1] = "ISL" THEN "RAA" ELSE "ISL")
                    \o Digits(v[2]),
                [n EXCEPT ![2] = 223]} : v \in Variants}
    \cup {<<>>}

\* bank status blocks: eight times the same byte, every nibble value at
\* once, and blocks that are not eight bytes long
AllNibbles == <<16, 50, 84, 118, 152, 186, 220, 254>>

BankBlocks ==
    {[k \in 1..8 |-> b] : b \in 0..255}
    \cup {AllNibbles, <<>>, SubSeq(ZeroBanks, 1, 7), ZeroBanks \o <<0>>,
          SubSeq(AllNibbles, 1, 4), AllNibbles \o AllNibbles}

\* lib.rs:1046-1057: the operations pushed for one record of the image.
\* `len` is payload.len() as u8; `len - 1` on an empty payload overflows,
\* which panics in a build with overflow checks and wraps to 255 in one
\* without, and so does `len + 1` on 255.  The call is that of I2cWrite,
\* whose id is 8 here as in dmaread_ops (I2cRead has 7).
record_ops(payload, checks) ==
    LET len == Len(payload) % 256
    IN  IF (len = 0 \/ len = 255) /\ checks
        THEN [outcome |-> "panic", ops |-> <<>>]
        ELSE [outcome |-> "Ok",
              ops |-> [k \in 1..Len(payload) |->
                          [op |-> "Push", val |-> payload[k]]]
                      \o <<[op |-> "Push", val |-> (len + 255) % 256],
                           [op |-> "Call", val |-> 8],
                           [op |-> "DropN", val |-> (len + 1) % 256]>>]

\* payloads of every length the parser can store: a length byte of 2 to
\* 255 leaves 0 to 253 bytes
MaxPayload == 253

RecordPayloads == {[k \in 1..n |-> (7 * k) % 256] : n \in 0..MaxPayload}

\* ---- the operations of the batches of the flash path ----
Push(v) == [op |-> "Push", val |-> v]

PushNone == [op |-> "PushNone", val |-> 0]

Call(f) == [op |-> "Call", val |-> f]

DropN(n) == [op |-> "DropN", val |-> n]

Done == [op |-> "Done", val |-> 0]

\* lib.rs:792-809: controller, port, mux and segment (or two Nones) and
\* the address of the device
base_ops(mux) ==
    <<Push(3), Push(1)>>
    \o (IF mux THEN <<Push(2), Push(4)>> ELSE <<PushNone, PushNone>>)
    \o <<Push(90)>>

\* lib.rs:271-293: the addresses of the words read indirectly, low byte
\* first
slot_addr(device) ==
    IF device = "RendmpGenTwo" THEN <<194, 0>> ELSE <<196, 0>>

crc_addr(device) ==
    IF device = "RendmpGenTwo" THEN <<63, 0>> ELSE <<60, 0>>

programmer_status_addr == <<7, 7>>

bank_status_addr == <<9, 7>>

\* dmaread_ops that drops three entries after the DMAADDR write
dmaread_ops_drops_three(a, n) ==
    <<Push(199), Push(a[1]), Push(a[2]), Push(2), Call(8), DropN(3),
      Push(197), Push(n), Call(7), DropN(2)>>

\* lib.rs:851-867: the operations of one indirect read of n bytes at a
dmaread_ops(a, n) ==
    <<Push(199), Push(a[1]), Push(a[2]), Push(2), Call(8), DropN(4),
      Push(197), Push(n), Call(7), DropN(2)>>

\* lib.rs:906-930: the preflight batch
preflight_ops(mux, device) ==
    base_ops(mux)
    \o <<Push(173), PushNone, Call(7), DropN(2)>>
    \o <<Push(174), PushNone, Call(7), DropN(2)>>
    \o dmaread_ops(slot_addr(device), 4)
    \o dmaread_ops(crc_addr(device), 4)
    \o <<Done>>

\* lib.rs:1097-1101: a verify batch
verify_ops(mux) ==
    base_ops(mux)
    \o dmaread_ops(programmer_status_addr, 2)
    \o dmaread_ops(bank_status_addr, 8)
    \o <<Done>>

RECURSIVE records_ops(_, _, _)
\* lib.rs:1044-1059: the operations of the records idx of data, one after
\* the other; a record that cannot be put together stops the program
records_ops(data, idx, checks) ==
    IF idx = <<>> THEN [outcome |-> "Ok", ops |-> <<>>]
    ELSE LET one == record_ops(At(data, Head(idx)), checks)
             rest == records_ops(data, Tail(idx), checks)
         IN  IF one.outcome # "Ok" THEN one
             ELSE IF rest.outcome # "Ok" THEN rest
             ELSE [outcome |-> "Ok", ops |-> one.ops \o rest.ops]

\* lib.rs:1041-1060: the write batch that begins at record s
write_ops(mux, data, s, m, checks) ==
    LET recops == records_ops(data, batch_indices(s, m), checks)
    IN  IF recops.outcome # "Ok" THEN recops
        ELSE [outcome |-> "Ok",
              ops |-> base_ops(mux) \o recops.ops \o <<Done>>]

\* the records of the images whose batches are put together: a small
\* image, one of two batches and a bit, and one with an empty payload and
\* the longest the parser can store
BatchData(name) ==
    CASE name = "small" -> [i \in 1..SmallLen |-> Payload(i - 1)]
      [] name = "long" -> [i \in 1..(2 * nwrites + 2) |-> Payload(i - 1)]
      [] OTHER -> <<Payload(0), <<>>, [k \in 1..MaxPayload |-> k % 256],
                    Payload(1)>>

BatchCalls ==
    {[fn |-> "batch_ops",
      in |-> [batch |-> "preflight", mux |-> x, device |-> d]] :
        x \in BOOLEAN, d \in {"RendmpGenTwo", "RendmpGenTwoFive"}}
    \cup {[fn |-> "batch_ops",
           in |-> [batch |-> "verify", mux |-> x, device |-> d]] :
        x \in BOOLEAN, d \in {"RendmpGenTwo", "RendmpGenTwoFive"}}
    \cup {[fn |-> "batch_ops",
           in |-> [batch |-> "write", mux |-> x, data |-> n, dryrun |-> y,
                   nth |-> k]] :
        x \in BOOLEAN, n \in {"small", "long", "edge"}, y \in BOOLEAN,
        k \in 0..2}

\* the image the preflight outcomes are looked at against
SmallImage == MkHex(82, ImageCrc, SmallLen)

LibCalls ==
    {[fn |-> "from_id", in |-> id] : id \in 0..255}
    \cup {[fn |-> "record_ops", in |-> pl] : pl \in RecordPayloads}
    \cup BatchCalls
    \cup {[fn |-> "preflight_checks", in |-> [res |-> r, args |-> m]] :
             r \in PreflightResults(SmallImage),
             m \in {x \in Modifiers : ~x.dryrun}}
    \cup {[fn |-> "verify_poll", in |-> [res |-> r, now |-> t]] :
             r \in VerifyResults, t \in {0, SlowPollMs}}
    \cup {[fn |-> "from_str", in |-> n] : n \in Names}
    \cup {[fn |-> "check_programmer_status", in |-> w] : w \in 0..65535}
    \cup {[fn |-> "bank_status", in |-> b] : b \in BankBlocks}

\* a call of one library function about to be made; no flash is under way
LibInit ==
    /\ pc = "call"
    /\ arg \in LibCalls
    /\ ret = <<>>
    /\ hex = <<>>
    /\ subargs = <<>>
    /\ results = <<>>
    /\ start = 0
    /\ max = 0
    /\ nwritten = 0
    /\ bar = 0
    /\ written = <<>>
    /\ nbatches = 0
    /\ polls = 0
    /\ elapsed = 0
    /\ status = 0
    /\ err = NoErr
    /\ errdata = <<>>
    /\ wresults = <<>>
    /\ bankraw = <<>>
    /\ lineno = 0
    /\ headers = <<>>
    /\ hexdata = <<>>
    /\ recs = <<>>
    /\ ops = <<>>
    /\ lap = 0
    /\ addr = 0
    /\ file = <<>>
    /\ ItmIdle

flashvars == <<hex, subargs, results, start, max, nwritten, bar, written,
              nbatches, polls, elapsed, status, err, errdata, wresults,
              bankraw>>

\* lib.rs:216: the device of an id byte
FromId ==
    /\ pc = "call"
    /\ arg.fn = "from_id"
    /\ ret' = [device |-> from_id(arg.in), id |-> arg.in]
    /\ pc' = "returned"
    /\ UNCHANGED <<arg, lineno, headers, hexdata, recs>>
    /\ UNCHANGED flashvars
    /\ UNCHANGED dumpvars
    /\ UNCHANGED itmvars

\* lib.rs:232: the device of a name
FromStr ==
    /\ pc = "call"
    /\ arg.fn = "from_str"
    /\ ret' = from_str(arg.in)
    /\ pc' = "returned"
    /\ UNCHANGED <<arg, lineno, headers, hexdata, recs>>
    /\ UNCHANGED flashvars
    /\ UNCHANGED dumpvars
    /\ UNCHANGED itmvars

\* lib.rs:295: the classification of a programmer status word
CheckProgrammerStatus ==
    /\ pc = "call"
    /\ arg.fn = "check_programmer_status"
    /\ ret' = check_programmer_status(arg.in)
    /\ pc' = "returned"
    /\ UNCHANGED <<arg, lineno, headers, hexdata, recs>>
    /\ UNCHANGED flashvars
    /\ UNCHANGED dumpvars
    /\ UNCHANGED itmvars

\* lib.rs:309: the decoding of a bank status block
BankStatus ==
    /\ pc = "call"
    /\ arg.fn = "bank_status"
    /\ ret' = bank_status(arg.in)
    /\ pc' = "returned"
    /\ UNCHANGED <<arg, lineno, headers, hexdata, recs>>
    /\ UNCHANGED flashvars
    /\ UNCHANGED dumpvars
    /\ UNCHANGED itmvars

\* lib.rs:1046-1057: the operations of one record write are put together,
\* by a build with or without overflow checks
RecordOps ==
    /\ pc = "call"
    /\ arg.fn = "record_ops"
    /\ \E checks \in BOOLEAN : ret' = record_ops(arg.in, checks)
    /\ pc' = "returned"
    /\ UNCHANGED <<arg, lineno, headers, hexdata, recs>>
    /\ UNCHANGED flashvars
    /\ UNCHANGED dumpvars
    /\ UNCHANGED itmvars

\* lib.rs:906-930, 1041-1060, 1097-1101: a batch of the flash path is put
\* together, the write batches by a build with or without overflow checks;
\* the write loop gets to its nth batch only while start is below max
BatchOps ==
    /\ pc = "call"
    /\ arg.fn = "batch_ops"
    /\ \/ /\ arg.in.batch = "preflight"
          /\ ret' = [outcome |-> "Ok",
                     ops |-> preflight_ops(arg.in.mux, arg.in.device)]
       \/ /\ arg.in.batch = "verify"
          /\ ret' = [outcome |-> "Ok", ops |-> verify_ops(arg.in.mux)]
       \/ /\ arg.in.batch = "write"
          /\ LET data == BatchData(arg.in.data)
                 rng == write_range(arg.in.dryrun, Len(data))
                 s == rng.start + nwrites * arg.in.nth
             IN  /\ arg.in.nth = 0 \/ s < rng.max
                 /\ \E checks \in BOOLEAN :
                      ret' = write_ops(arg.in.mux, data, s, rng.max, checks)
    /\ pc' = "returned"
    /\ UNCHANGED <<arg, lineno, headers, hexdata, recs>>
    /\ UNCHANGED flashvars
    /\ UNCHANGED dumpvars
    /\ UNCHANGED itmvars

\* lib.rs:933-1006: the outcomes of a preflight batch are looked at
PreflightChecks ==
    /\ pc = "call"
    /\ arg.fn = "preflight_checks"
    /\ ret' = preflight_checks(arg.in.res, SmallImage, arg.in.args)
    /\ pc' = "returned"
    /\ UNCHANGED <<arg, lineno, headers, hexdata, recs>>
    /\ UNCHANGED flashvars
    /\ UNCHANGED dumpvars
    /\ UNCHANGED itmvars

\* lib.rs:1104-1151: the outcomes of a verify batch are looked at
VerifyPollChecks ==
    /\ pc = "call"
    /\ arg.fn = "verify_poll"
    /\ ret' = verify_poll(arg.in.res, arg.in.now)
    /\ pc' = "returned"
    /\ UNCHANGED <<arg, lineno, headers, hexdata, recs>>
    /\ UNCHANGED flashvars
    /\ UNCHANGED dumpvars
    /\ UNCHANGED itmvars

LibNext ==
    \/ FromId
    \/ FromStr
    \/ CheckProgrammerStatus
    \/ BankStatus
    \/ RecordOps
    \/ BatchOps
    \/ PreflightChecks
    \/ VerifyPollChecks

LibSpec == LibInit /\ [][LibNext]_vars

(***************************************************************************)
(* RendmpHex::from_file: the HEX file parser                               *)
(***************************************************************************)
\* A file is a sequence of lines and a line the sequence of its bytes in
\* UTF-8, without the line terminator.

\* RendmpDevice::crc_line (lib.rs:264)
crc_line(device) == IF device = "RendmpGenTwo" THEN 600 ELSE 526

\* RendmpHexRecordKind::from_u8 (lib.rs:328-332)
RendmpHexRecordKind(b) ==
    IF b = 0 THEN "Data" ELSE IF b = 73 THEN "Header" ELSE "None"

\* the value of a hexadecimal digit, -1 for any other byte
hex_digit(c) ==
    IF c >= 48 /\ c <= 57 THEN c - 48
    ELSE IF c >= 65 /\ c <= 70 THEN c - 55
    ELSE IF c >= 97 /\ c <= 102 THEN c - 87
    ELSE -1

\* u8::from_str_radix(s, 16) of a two-byte string, -1 for Err: two digits,
\* or a plus sign and one digit
from_str_radix(s) ==
    IF s[1] = 43
    THEN hex_digit(s[2])
    ELSE IF hex_digit(s[1]) < 0 \/ hex_digit(s[2]) < 0 THEN -1
    ELSE 16 * hex_digit(s[1]) + hex_digit(s[2])

\* str::is_char_boundary: the start, the end, or a byte that is not a
\* continuation byte; slicing a str anywhere else panics
is_char_boundary(line, i) ==
    \/ i = 0
    \/ i = Len(line)
    \/ i < Len(line) /\ (At(line, i) < 128 \/ At(line, i) >= 192)

\* lib.rs:376-397: the bytes of a line, from column i (0-based) on
RECURSIVE hex_decode(_, _, _)
hex_decode(line, i, vals) ==
    IF i >= Len(line) THEN [outcome |-> "Ok", err |-> NoErr, vals |-> vals]
    ELSE IF i + 1 >= Len(line)
         THEN [outcome |-> "Err", err |-> "short hex input in column",
               vals |-> vals]
    ELSE IF ~is_char_boundary(line, i) \/ ~is_char_boundary(line, i + 2)
         THEN [outcome |-> "panic", err |-> "not a char boundary",
               vals |-> vals]
    ELSE IF from_str_radix(SubSeq(line, i + 1, i + 2)) < 0
         THEN [outcome |-> "Err", err |-> "bad hex value", vals |-> vals]
    ELSE hex_decode(line, i + 2,
                    Append(vals, from_str_radix(SubSeq(line, i + 1, i + 2))))

NoRecord == [kind |-> "None", reclen |-> 0, payload |-> <<>>]

Stop(outcome, e) == [outcome |-> outcome, err |-> e] @@ NoRecord

\* a loop iteration that accepts a record for any address
parse_line_any_address(line, address) ==
    LET dec == hex_decode(line, 0, <<>>)
        vals == dec.vals
        reclen == At(vals, 1)
    IN  IF line = <<>> \/ Head(line) = 35 THEN Stop("skip", NoErr)
        ELSE IF dec.outcome # "Ok" THEN Stop(dec.outcome, dec.err)
        ELSE IF Len(vals) < 2 THEN Stop("Err", "short hex input")
        ELSE IF RendmpHexRecordKind(At(vals, 0)) = "None"
             THEN Stop("Err", "bad record kind")
        ELSE IF reclen # Len(vals) - 2 THEN Stop("Err", "bad record length")
        ELSE IF Len(vals) < 3 THEN Stop("panic", "index out of bounds")
        ELSE IF 3 > reclen + 1 THEN Stop("panic", "slice index out of order")
        ELSE [outcome |-> "push", err |-> NoErr,
              kind |-> RendmpHexRecordKind(At(vals, 0)),
              reclen |-> reclen,
              payload |-> SubSeq(vals, 4, reclen + 1)]

\* a loop iteration that keeps the last byte of the line in the payload
parse_line_keeps_last_byte(line, address) ==
    LET dec == hex_decode(line, 0, <<>>)
        vals == dec.vals
        reclen == At(vals, 1)
    IN  IF line = <<>> \/ Head(line) = 35 THEN Stop("skip", NoErr)
        ELSE IF dec.outcome # "Ok" THEN Stop(dec.outcome, dec.err)
        ELSE IF Len(vals) < 2 THEN Stop("Err", "short hex input")
        ELSE IF RendmpHexRecordKind(At(vals, 0)) = "None"
             THEN Stop("Err", "bad record kind")
        ELSE IF reclen # Len(vals) - 2 THEN Stop("Err", "bad record length")
        ELSE IF Len(vals) < 3 THEN Stop("panic", "index out of bounds")
        ELSE IF At(vals, 2) \div 2 # address
             THEN Stop("Err", "image specifies address")
        ELSE IF 3 > reclen + 1 THEN Stop("panic", "slice index out of order")
        ELSE [outcome |-> "push", err |-> NoErr,
              kind |-> RendmpHexRecordKind(At(vals, 0)),
              reclen |-> reclen,
              payload |-> SubSeq(vals, 4, reclen + 2)]

\* lib.rs:368-439: one iteration of the loop over the lines. The outcome
\* is "skip" (continue), "push" (a record for headers or data), "Err" (bail)
\* or "panic" (an index or a slice out of range).
parse_line(line, address) ==
    LET dec == hex_decode(line, 0, <<>>)
        vals == dec.vals
        reclen == At(vals, 1)
    IN  IF line = <<>> \/ Head(line) = 35 THEN Stop("skip", NoErr)
        ELSE IF dec.outcome # "Ok" THEN Stop(dec.outcome, dec.err)
        ELSE IF Len(vals) < 2 THEN Stop("Err", "short hex input")
        ELSE IF RendmpHexRecordKind(At(vals, 0)) = "None"
             THEN Stop("Err", "bad record kind")
        ELSE IF reclen # Len(vals) - 2 THEN Stop("Err", "bad record length")
        ELSE IF Len(vals) < 3 THEN Stop("panic", "index out of bounds")
        ELSE IF At(vals, 2) \div 2 # address
             THEN Stop("Err", "image specifies address")
        ELSE IF 3 > reclen + 1 THEN Stop("panic", "slice index out of order")
        ELSE [outcome |-> "push", err |-> NoErr,
              kind |-> RendmpHexRecordKind(At(vals, 0)),
              reclen |-> reclen,
              payload |-> SubSeq(vals, 4, reclen + 1)]

\* flip_word (lib.rs:360-366); the argument is payload[1..], which panics
\* on an empty payload
flip_word(payload, what) ==
    IF Len(payload) < 1
    THEN [outcome |-> "panic", err |-> "slice start out of range", val |-> <<>>]
    ELSE IF Len(payload) - 1 # 4
         THEN [outcome |-> "Err", err |-> what, val |-> <<>>]
    ELSE [outcome |-> "Ok", err |-> NoErr,
          val |-> <<payload[5], payload[4], payload[3], payload[2]>>]

NoImage == <<>>

Bail(outcome, e) == [outcome |-> outcome, err |-> e, hex |-> NoImage]

\* the end of the file without the check of the number of records
finish_no_count_check(hdrs, dat, checks) ==
    LET id == flip_word(hdrs[1], "bad IC_DEVICE_ID length")
        device == from_id(At(id.val, 1))
        rev == flip_word(hdrs[2], "bad IC_DEVICE_REV length")
        ndx == crc_line(device) - Len(hdrs) - 2
        crc == Tail(At(dat, ndx))
    IN  IF Len(hdrs) < 2 THEN Bail("Err", "insufficient headers found")
        ELSE IF id.outcome # "Ok" THEN Bail(id.outcome, id.err)
        ELSE IF device = "panic" THEN Bail("panic", "matches both")
        ELSE IF device = "unknown" THEN Bail("Err", "unknown device id")
        ELSE IF ndx < 0 /\ checks
             THEN Bail("panic", "subtract with overflow")
        ELSE IF ndx < 0 \/ ndx >= Len(dat)
             THEN Bail("panic", "index out of bounds")
        ELSE IF At(dat, ndx) = <<>>
             THEN Bail("panic", "slice start out of range")
        ELSE IF Len(crc) # 4 THEN Bail("Err", "bad CRC length")
        ELSE IF rev.outcome # "Ok" THEN Bail(rev.outcome, rev.err)
        ELSE [outcome |-> "Ok", err |-> NoErr,
              hex |-> [device |-> device,
                       ic_device_id |-> id.val,
                       ic_device_rev |-> rev.val,
                       crc |-> from_le_bytes(crc),
                       data |-> dat]]

\* the end of the file with the CRC read as a big-endian word
finish_crc_big_endian(hdrs, dat, checks) ==
    LET id == flip_word(hdrs[1], "bad IC_DEVICE_ID length")
        device == from_id(At(id.val, 1))
        rev == flip_word(hdrs[2], "bad IC_DEVICE_REV length")
        ndx == crc_line(device) - Len(hdrs) - 2
        crc == Tail(At(dat, ndx))
    IN  IF Len(hdrs) < 2 THEN Bail("Err", "insufficient headers found")
        ELSE IF id.outcome # "Ok" THEN Bail(id.outcome, id.err)
        ELSE IF device = "panic" THEN Bail("panic", "matches both")
        ELSE IF device = "unknown" THEN Bail("Err", "unknown device id")
        ELSE IF Len(hdrs) + Len(dat) # lines(device)
             THEN Bail("Err", "expected total lines")
        ELSE IF ndx < 0 /\ checks
             THEN Bail("panic", "subtract with overflow")
        ELSE IF ndx < 0 \/ ndx >= Len(dat)
             THEN Bail("panic", "index out of bounds")
        ELSE IF At(dat, ndx) = <<>>
             THEN Bail("panic", "slice start out of range")
        ELSE IF Len(crc) # 4 THEN Bail("Err", "bad CRC length")
        ELSE IF rev.outcome # "Ok" THEN Bail(rev.outcome, rev.err)
        ELSE [outcome |-> "Ok", err |-> NoErr,
              hex |-> [device |-> device,
                       ic_device_id |-> id.val,
                       ic_device_rev |-> rev.val,
                       crc |-> from_le_bytes(<<crc[4], crc[3], crc[2], crc[1]>>),
                       data |-> dat]]

\* lib.rs:441-476: what from_file does with the records once every line
\* is read.  The index of the CRC record is a usize: when the subtraction
\* goes below zero a build with overflow checks panics there, and one
\* without wraps to an index beyond every record and panics at the index.
finish(hdrs, dat, checks) ==
    LET id == flip_word(hdrs[1], "bad IC_DEVICE_ID length")
        device == from_id(At(id.val, 1))
        rev == flip_word(hdrs[2], "bad IC_DEVICE_REV length")
        ndx == crc_line(device) - Len(hdrs) - 2
        crc == Tail(At(dat, ndx))
    IN  IF Len(hdrs) < 2 THEN Bail("Err", "insufficient headers found")
        ELSE IF id.outcome # "Ok" THEN Bail(id.outcome, id.err)
        ELSE IF device = "panic" THEN Bail("panic", "matches both")
        ELSE IF device = "unknown" THEN Bail("Err", "unknown device id")
        ELSE IF Len(hdrs) + Len(dat) # lines(device)
             THEN Bail("Err", "expected total lines")
        ELSE IF ndx < 0 /\ checks
             THEN Bail("panic", "subtract with overflow")
        ELSE IF ndx < 0 \/ ndx >= Len(dat)
             THEN Bail("panic", "index out of bounds")
        ELSE IF At(dat, ndx) = <<>>
             THEN Bail("panic", "slice start out of range")
        ELSE IF Len(crc) # 4 THEN Bail("Err", "bad CRC length")
        ELSE IF rev.outcome # "Ok" THEN Bail(rev.outcome, rev.err)
        ELSE [outcome |-> "Ok", err |-> NoErr,
              hex |-> [device |-> device,
                       ic_device_id |-> id.val,
                       ic_device_rev |-> rev.val,
                       crc |-> from_le_bytes(crc),
                       data |-> dat]]

\* ---- inputs of the parser ----
\* the I2C address the image is for: the `address` argument of from_file
Address == 90

\* the longest of the short files
ShortLen == 2

HexChar(d) == IF d < 10 THEN 48 + d ELSE 55 + d

\* a line of a HEX file: two upper-case hexadecimal digits per byte
LineOf(bytes) ==
    [k \in 1..(2 * Len(bytes)) |->
        IF k % 2 = 1 THEN HexChar(bytes[(k + 1) \div 2] \div 16)
        ELSE HexChar(bytes[k \div 2] % 16)]

\* the same line with its digits in lower case
LowerLineOf(bytes) == lower_name(LineOf(bytes))

\* the bytes of a record: kind, length, address, payload and a last byte
\* that the parser does not look at
Record(kind, address, payload) ==
    <<kind, Len(payload) + 2, address>> \o payload \o <<0>>

\* the IC_DEVICE_ID and IC_DEVICE_REV headers, big-endian in the file
HeaderId(id) == Record(73, 2 * Address, <<173, 73, 210, id, 0>>)

HeaderRev == Record(73, 2 * Address + 1, <<174, 6, 0, 0, 3>>)

DataRec(i) == Record(0, 2 * Address, Payload(i))

CrcRec(crc) == Record(0, 2 * Address, <<148>> \o to_le_bytes(crc))

WrongAddress(rec) == [rec EXCEPT ![3] = (2 * Address + 2) % 256]

\* lines as they may stand in a file: well-formed records, lines that are
\* skipped, and lines that are malformed one way each
ShortLines ==
    {<<>>,                                        \* blank
     <<35, 32, 72>>,                              \* "# H"
     LineOf(HeaderId(82)),
     LineOf(HeaderId(1)),                         \* no device has id 1
     LineOf(HeaderRev),
     LineOf(Record(73, 2 * Address, <<173, 1, 2>>)),  \* a 2-byte id
     LineOf(Record(73, 2 * Address, <<>>)),       \* header, empty payload
     LineOf(DataRec(0)),
     LowerLineOf(DataRec(4)),
     LineOf(Record(0, 2 * Address, <<>>)),        \* data, empty payload
     LineOf(WrongAddress(DataRec(0))),
     LineOf(WrongAddress(HeaderRev)),
     SubSeq(LineOf(DataRec(0)), 1, 9),            \* odd number of digits
     [LineOf(DataRec(0)) EXCEPT ![4] = 71],       \* "G" for a digit
     <<43, 48>> \o SubSeq(LineOf(DataRec(0)), 3, 10),  \* "+0" for "00"
     <<48, 195, 169>>,                            \* "0" and e-acute
     <<195, 169>>,                                \* e-acute alone
     LineOf(<<0>>),                               \* one byte
     LineOf(<<0, 0>>),                            \* kind and length only
     LineOf(<<73, 0>>),
     LineOf(<<0, 1, 2 * Address>>),               \* three bytes
     LineOf(<<1, 3, 2 * Address, 7, 0>>),         \* kind 1
     LineOf(<<0, 9, 2 * Address, 7, 0>>)}         \* length 9, 3 follow

RECURSIVE FilesOf(_, _)
FilesOf(pool, n) ==
    IF n = 0 THEN {<<>>}
    ELSE LET shorter == FilesOf(pool, n - 1)
         IN  shorter \cup {Append(f, l) : f \in shorter, l \in pool}

ShortFiles == FilesOf(ShortLines, ShortLen)

\* a file of h headers and n data records for device id: the two headers,
\* h - 2 more headers, and the data with the CRC record where crc_line
\* puts it for h headers
FullFile(id, crc, h, n) ==
    LET ndx == crc_line(from_id(id)) - h - 2
    IN  <<LineOf(HeaderId(id)), LineOf(HeaderRev)>>
        \o [k \in 1..(h - 2) |-> LineOf(Record(73, 2 * Address, Payload(k)))]
        \o [k \in 1..n |-> IF k - 1 = ndx THEN LineOf(CrcRec(crc))
                            ELSE LineOf(DataRec(k - 1))]

GoodFile(id) == FullFile(id, ImageCrc, 2, lines(from_id(id)) - 2)

\* line k of the file replaced
WithLine(f, k, line) == [f EXCEPT ![k] = line]

\* files of the size of an image: well-formed ones, ones with more headers
\* and as many data records fewer, up to so many that the CRC would be the
\* first data record or come before it, and ones with a single line that
\* is not as it should be, at the start, in the middle or at the end
FullFiles ==
    LET g == GoodFile(82)
        n == Len(g)
        c == crc_line("RendmpGenTwo")
    IN  {g, GoodFile(115),
         <<<<35>>, <<>>>> \o g \o <<<<>>>>,
         FullFile(82, ImageCrc, 3, n - 3),
         FullFile(82, ImageCrc, 2, n - 1),
         FullFile(82, ImageCrc, 2, n - 3),
         FullFile(82, ImageCrc, c - 2, n - c + 2),
         FullFile(82, ImageCrc, c - 1, n - c + 1),
         WithLine(g, 1, LineOf(WrongAddress(HeaderId(82)))),
         WithLine(g, 300, LineOf(WrongAddress(DataRec(297)))),
         WithLine(g, n, LineOf(WrongAddress(DataRec(n - 3)))),
         WithLine(g, n, LineOf(<<0, 0>>)),
         WithLine(g, 300, LineOf(<<0, 1, 2 * Address>>)),
         WithLine(g, 300, LineOf(Record(0, 2 * Address, <<>>))),
         WithLine(g, c - 1, LineOf(Record(0, 2 * Address, <<>>))),
         WithLine(g, c - 1, LineOf(Record(0, 2 * Address, <<148, 1, 2, 3>>))),
         WithLine(g, 2, LineOf(Record(73, 2 * Address + 1, <<>>)))}

ParseCalls ==
    {[fn |-> "from_file", file |-> f, address |-> Address] :
        f \in ShortFiles \cup FullFiles}

\* from_file is called: no line is read yet; no flash is under way
ParseInit ==
    /\ pc = "lines"
    /\ arg \in ParseCalls
    /\ ret = <<>>
    /\ lineno = 0
    /\ headers = <<>>
    /\ hexdata = <<>>
    /\ recs = <<>>
    /\ ops = <<>>
    /\ lap = 0
    /\ addr = 0
    /\ file = <<>>
    /\ ItmIdle
    /\ hex = <<>>
    /\ subargs = <<>>
    /\ results = <<>>
    /\ start = 0
    /\ max = 0
    /\ nwritten = 0
    /\ bar = 0
    /\ written = <<>>
    /\ nbatches = 0
    /\ polls = 0
    /\ elapsed = 0
    /\ status = 0
    /\ err = NoErr
    /\ errdata = <<>>
    /\ wresults = <<>>
    /\ bankraw = <<>>

\* lib.rs:368-439: the next line of the file is read
ReadLine ==
    /\ pc = "lines"
    /\ lineno < Len(arg.file)
    /\ lineno' = lineno + 1
    /\ LET out == parse_line(arg.file[lineno'], arg.address)
       IN  /\ IF out.outcome \in {"Err", "panic"}
              THEN /\ pc' = "returned"
                   /\ ret' = Bail(out.outcome, out.err)
              ELSE UNCHANGED <<pc, ret>>
           /\ headers' = IF out.outcome = "push" /\ out.kind = "Header"
                         THEN Append(headers, out.payload) ELSE headers
           /\ hexdata' = IF out.outcome = "push" /\ out.kind = "Data"
                         THEN Append(hexdata, out.payload) ELSE hexdata
           /\ recs' = IF out.outcome = "push"
                      THEN Append(recs,
                                  [kind |-> out.kind, reclen |-> out.reclen,
                                   at |-> IF out.kind = "Header"
                                          THEN Len(headers')
                                          ELSE Len(hexdata')])
                      ELSE recs
    /\ UNCHANGED arg
    /\ UNCHANGED flashvars
    /\ UNCHANGED dumpvars
    /\ UNCHANGED itmvars

\* lib.rs:441-476: the end of the file is reached
Finish ==
    /\ pc = "lines"
    /\ lineno = Len(arg.file)
    /\ pc' = "returned"
    /\ \E checks \in BOOLEAN : ret' = finish(headers, hexdata, checks)
    /\ UNCHANGED <<arg, lineno, headers, hexdata, recs>>
    /\ UNCHANGED flashvars
    /\ UNCHANGED dumpvars
    /\ UNCHANGED itmvars

ParseNext == ReadLine \/ Finish

ParseSpec == ParseInit /\ [][ParseNext]_vars

(***************************************************************************)
(* rendmp: the command lookup, the two reports and the memory dump         *)
(***************************************************************************)
\* An entry of the command database: whether the command is known, its
\* code and the kinds of its read and its write operation.
Missing == [found |-> FALSE, code |-> 0, read |-> "Illegal", write |-> "Illegal"]

\* lookup that takes DMASEQ whatever its read operation is
lookup_seq_kind_unchecked(all) ==
    IF ~all.DMAADDR.found
    THEN "no DMAADDR command found; is this a Renesas device?"
    ELSE IF all.DMAADDR.write # "WriteWord" THEN "DMAADDR mismatch"
    ELSE IF ~all.DMASEQ.found
         THEN "no DMASEQ command found; is this a Renesas device?"
    ELSE NoErr

\* lib.rs:811-833: DMAADDR and DMASEQ are looked up in the database
lookup(all) ==
    IF ~all.DMAADDR.found
    THEN "no DMAADDR command found; is this a Renesas device?"
    ELSE IF all.DMAADDR.write # "WriteWord" THEN "DMAADDR mismatch"
    ELSE IF ~all.DMASEQ.found
         THEN "no DMASEQ command found; is this a Renesas device?"
    ELSE IF all.DMASEQ.read # "ReadWord32" THEN "DMASEQ mismatch"
    ELSE NoErr

\* lib.rs:1166-1168
blocksize == 128

nblocks == 8

memsize == 262144

\* lib.rs:1168
laps == memsize \div (blocksize * nblocks)

\* a lap that sets the address whichever lap it is
lap_calls_reset_every_lap(n) ==
    <<[fn |-> "i2c_write", reg |-> "DMAADDR", of |-> "zero", len |-> 2]>>
    \o [k \in 1..nblocks |->
           [fn |-> "i2c_read", reg |-> "DMASEQ", of |-> "next",
            len |-> blocksize]]

\* lib.rs:1198-1218: the calls of the batch of a lap, each with the number
\* of bytes it writes or asks for
lap_calls(n) ==
    (IF n = 0
     THEN <<[fn |-> "i2c_write", reg |-> "DMAADDR", of |-> "zero", len |-> 2]>>
     ELSE <<>>)
    \o [k \in 1..nblocks |->
           [fn |-> "i2c_read", reg |-> "DMASEQ", of |-> "next",
            len |-> blocksize]]

RECURSIVE chunk_bytes(_)
\* lib.rs:1246: the bytes of a sequence of chunks
chunk_bytes(chunks) ==
    IF chunks = <<>> THEN 0
    ELSE Len(Head(chunks)) + chunk_bytes(Tail(chunks))

\* dump_results that goes on with the chunks behind a failed read
dump_results_skips_failed(res, n) ==
    IF n = 0 /\ ~At(res, 0).ok
    THEN [err |-> "failed to set address", chunks |-> <<>>]
    ELSE LET first == IF n = 0 THEN 1 ELSE 0
             rest == SubSeq(res, first + 1, Len(res))
         IN  [err |-> IF first_error(rest) >= 0 THEN "read failed" ELSE NoErr,
              chunks |-> [k \in 1..Cardinality({j \in 1..Len(rest) : rest[j].ok})
                            |-> rest[CHOOSE j \in 1..Len(rest) :
                                       /\ rest[j].ok
                                       /\ Cardinality({i \in 1..j : rest[i].ok})
                                            = k].val]]

\* lib.rs:1229-1256: what a lap does with the outcomes of its batch: the
\* chunks it writes to the file, in order, and the error it ends with
dump_results(res, n) ==
    IF n = 0 /\ ~At(res, 0).ok
    THEN [err |-> "failed to set address", chunks |-> <<>>]
    ELSE LET first == IF n = 0 THEN 1 ELSE 0
             rest == SubSeq(res, first + 1, Len(res))
             bad == first_error(rest)
         IN  IF bad >= 0
             THEN [err |-> "read failed",
                   chunks |-> [k \in 1..bad |-> rest[k].val]]
             ELSE [err |-> NoErr,
                   chunks |-> [k \in 1..Len(rest) |-> rest[k].val]]

\* ---- inputs ----
AddrEntries ==
    {Missing} \cup
    {[found |-> TRUE, code |-> 199, read |-> r, write |-> w] :
        r \in {"ReadWord", "Illegal"},
        w \in {"WriteWord", "WriteWord32", "Illegal"}}

SeqEntries ==
    {Missing} \cup
    {[found |-> TRUE, code |-> 197, read |-> r, write |-> w] :
        r \in {"ReadWord32", "ReadWord", "Illegal"},
        w \in {"WriteWord32", "Illegal"}}

\* hargs.device: a device name, or none when the device was given by its
\* address
Devices ==
    {[some |-> FALSE, name |-> <<>>]} \cup
    {[some |-> TRUE, name |-> n] :
        n \in {fmt(82), lower_name(fmt(115)), <<97, 100, 109, 49, 50, 55, 50>>}}

\* the operation asked for, the database and the device; only the reports
\* look at the name of the device
CmdCalls ==
    {c \in [op : {"crc", "slots", "flash", "dump", "none"},
            all : [DMAADDR : AddrEntries, DMASEQ : SeqEntries],
            device : Devices] :
        c.op \in {"crc", "slots"} \/ c.device = [some |-> TRUE, name |-> fmt(82)]}

\* the outcomes of the n indirect reads of a report batch
ReadOutcomes ==
    {Err(2), Ok(<<10, 0, 0>>), Ok(to_le_bytes(MaxSlots)), Ok(to_le_bytes(ImageCrc))}

ReportResults(n) ==
    IF n = 1
    THEN {<<w, r>> : w \in {Ok(<<>>), Err(5)}, r \in ReadOutcomes}
    ELSE {<<w, r, x, y>> : w \in {Ok(<<>>), Err(5)}, r \in ReadOutcomes,
                           x \in {Ok(<<>>), Err(5)}, y \in ReadOutcomes}

\* the length of a read that comes back short
ShortChunk == 64
\* how much of a chunk the file takes when it does not take all of it
PartialWrite == 72

\* the k-th chunk lap n reads
Chunk(n, k) == [j \in 1..blocksize |-> (n + 16 * k + j) % 256]

\* the outcomes of the batch of lap n: every read succeeds, or some fail,
\* or one comes back short (once in a dump, while a bytes were written);
\* in the first lap the outcome of the address write comes first
LapResults(n, a) ==
    LET good == [k \in 1..nblocks |-> Ok(Chunk(n, k))]
        reads ==
            {good, [good EXCEPT ![2] = Err(9), ![5] = Err(9)]}
            \cup {[good EXCEPT ![f] = Err(9)] : f \in {1, 4, nblocks}}
            \cup (IF a = blocksize * nblocks * n
                  THEN {[good EXCEPT
                           ![3] = Ok(SubSeq(Chunk(n, 3), 1, ShortChunk))]}
                  ELSE {})
    IN  IF n = 0
        THEN {<<w>> \o r : w \in {Ok(<<>>), Err(5)}, r \in reads}
        ELSE reads

\* ---- the operations ----
CmdInit ==
    /\ pc = "lookup"
    /\ arg \in CmdCalls
    /\ ret = <<>>
    /\ hex = <<>>
    /\ subargs = <<>>
    /\ results = <<>>
    /\ start = 0
    /\ max = 0
    /\ nwritten = 0
    /\ bar = 0
    /\ written = <<>>
    /\ nbatches = 0
    /\ polls = 0
    /\ elapsed = 0
    /\ status = 0
    /\ err = NoErr
    /\ errdata = <<>>
    /\ wresults = <<>>
    /\ bankraw = <<>>
    /\ lineno = 0
    /\ headers = <<>>
    /\ hexdata = <<>>
    /\ recs = <<>>
    /\ ops = <<>>
    /\ lap = 0
    /\ addr = 0
    /\ file = <<>>
    /\ ItmIdle

\* what the operations of this part leave alone
othervars == <<hex, subargs, start, max, nwritten, written, nbatches, polls,
               elapsed, status, errdata, wresults, bankraw, arg, lineno,
               headers, hexdata, recs, state, pstate, vec, hdr, runlen, datum,
               zeros, ncalls, packet>>

\* lib.rs:811-833 and the branch taken at 869, 882, 899 or 1165
Lookup ==
    /\ pc = "lookup"
    /\ LET e == lookup(arg.all)
       IN  IF e # NoErr
           THEN pc' = "failed" /\ err' = e
           ELSE /\ pc' = CASE arg.op = "crc" -> "crc"
                           [] arg.op = "slots" -> "slots"
                           [] arg.op = "flash" -> "flash"
                           [] arg.op = "dump" -> "open"
                           [] OTHER -> "done"
                /\ UNCHANGED err
    /\ UNCHANGED <<results, bar, ret, ops, lap, addr, file>>
    /\ UNCHANGED othervars

\* lib.rs:869-880: the CRC of the device is read and reported
ReportCrc ==
    /\ pc = "crc"
    /\ IF ~arg.device.some
       THEN /\ pc' = "panic"
            /\ err' = "called Option::unwrap() on a None value"
            /\ UNCHANGED <<results, ret, ops>>
       ELSE LET d == from_str(arg.device.name)
            IN  IF d.err # NoErr
                THEN /\ pc' = IF d.err = "panic" THEN "panic" ELSE "failed"
                     /\ err' = d.err
                     /\ UNCHANGED <<results, ret, ops>>
                ELSE /\ ops' = dmaread_calls("crc_addr")
                     /\ \/ /\ pc' = "failed"
                           /\ err' = RunError
                           /\ UNCHANGED <<results, ret>>
                        \/ \E res \in ReportResults(1) :
                             LET crc == word_result(At(res, 1), "CRC")
                             IN  /\ results' = res
                                 /\ err' = crc.err
                                 /\ pc' = IF crc.err # NoErr THEN "failed"
                                          ELSE "done"
                                 /\ ret' = IF crc.err # NoErr THEN ret
                                           ELSE crc.val
    /\ UNCHANGED <<bar, lap, addr, file>>
    /\ UNCHANGED othervars

\* lib.rs:882-897: the number of free slots is read and reported
ReportSlots ==
    /\ pc = "slots"
    /\ IF ~arg.device.some
       THEN /\ pc' = "panic"
            /\ err' = "called Option::unwrap() on a None value"
            /\ UNCHANGED <<results, ret, ops>>
       ELSE LET d == from_str(arg.device.name)
            IN  IF d.err # NoErr
                THEN /\ pc' = IF d.err = "panic" THEN "panic" ELSE "failed"
                     /\ err' = d.err
                     /\ UNCHANGED <<results, ret, ops>>
                ELSE /\ ops' = dmaread_calls("slot_addr")
                               \o dmaread_calls("crc_addr")
                     /\ \/ /\ pc' = "failed"
                           /\ err' = RunError
                           /\ UNCHANGED <<results, ret>>
                        \/ \E res \in ReportResults(2) :
                             LET nslots ==
                                   word_result(At(res, 1), "available slots")
                             IN  /\ results' = res
                                 /\ err' = nslots.err
                                 /\ pc' = IF nslots.err # NoErr THEN "failed"
                                          ELSE "done"
                                 /\ ret' = IF nslots.err # NoErr THEN ret
                                           ELSE nslots.val
    /\ UNCHANGED <<bar, lap, addr, file>>
    /\ UNCHANGED othervars

\* lib.rs:1173-1187: the output file is created
DumpOpen ==
    /\ pc = "open"
    /\ \/ pc' = "dump" /\ UNCHANGED err
       \/ pc' = "failed" /\ err' = "open failed"
    /\ UNCHANGED <<results, bar, ret, ops, lap, addr, file>>
    /\ UNCHANGED othervars

\* lib.rs:1195-1257: one lap of the dump. The lap stops at the first chunk
\* the file does not take (write_all, 1245): disk tells which one that is,
\* if any, and part how many of its bytes had got into the file when the
\* write failed; those bytes are in the file, but addr and the bar count
\* only the chunks written in full.
DumpLap ==
    /\ pc = "dump"
    /\ ops' = lap_calls(lap)
    /\ \/ /\ pc' = "failed"
          /\ err' = RunError
          /\ UNCHANGED <<results, bar, lap, addr, file>>
       \/ \E res \in LapResults(lap, addr) :
            LET out == dump_results(res, lap)
            IN  /\ results' = res
                /\ \E disk \in {0, 1, nblocks}, part \in {0, PartialWrite} :
                     IF disk >= 1 /\ disk <= Len(out.chunks)
                     THEN LET whole == SubSeq(out.chunks, 1, disk - 1)
                              taken == SubSeq(out.chunks[disk], 1,
                                              Min(part,
                                                  Len(out.chunks[disk]) - 1))
                          IN  /\ file' = IF taken = <<>> THEN whole
                                         ELSE Append(whole, taken)
                              /\ addr' = addr + chunk_bytes(whole)
                              /\ bar' = IF whole = <<>> THEN bar ELSE addr'
                              /\ pc' = "failed"
                              /\ err' = "write failed"
                              /\ UNCHANGED lap
                     ELSE /\ file' = out.chunks
                          /\ addr' = addr + chunk_bytes(out.chunks)
                          /\ bar' = IF out.chunks = <<>> THEN bar ELSE addr'
                          /\ err' = out.err
                          /\ IF out.err # NoErr
                             THEN pc' = "failed" /\ UNCHANGED lap
                             ELSE /\ lap' = lap + 1
                                  /\ pc' = IF lap' = laps THEN "done"
                                           ELSE "dump"
    /\ UNCHANGED ret
    /\ UNCHANGED othervars

CmdNext == Lookup \/ ReportCrc \/ ReportSlots \/ DumpOpen \/ DumpLap

CmdSpec == CmdInit /\ [][CmdNext]_vars

(***************************************************************************)
(* The trace ingest (src/itm.rs).  itm_ingest hands a closure to the       *)
(* trace-port reader, which calls it for the bytes of the selected stream, *)
(* in order.  The locals of itm_ingest live across the calls; one call is  *)
(* one step.  The reader (crate::tpiu) decides whether the closure is      *)
(* called again after it has returned an error: here it may be.            *)
(***************************************************************************)
\* how many zeros the search is given in a row at most
MaxRun == 7
\* how many packets the callback is given at most
MaxPackets == 3

\* the bitwise or of two u8 values
RECURSIVE bitor(_, _)
bitor(x, y) ==
    IF x = 0 THEN y
    ELSE IF y = 0 THEN x
    ELSE (IF x % 2 = 1 \/ y % 2 = 1 THEN 1 ELSE 0)
         + 2 * bitor(x \div 2, y \div 2)

\* u8 << n
shl(x, n) == (x * 2 ^ n) % 256

\* itm.rs:91-103, the headers that itm_hdrs enumerates (itm.rs:166-198)
ITMHeaders ==
    {ITMSync, [kind |-> "Overflow"],
     [kind |-> "GlobalTimestamp1"], [kind |-> "GlobalTimestamp2"]}
    \cup {[kind |-> "Instrumentation", a |-> a, ss |-> ss] :
             a \in 0..31, ss \in 1..3}
    \cup {[kind |-> "Hardware", a |-> a, ss |-> ss] : a \in 0..31, ss \in 1..3}
    \cup {[kind |-> "LocalTimestamp1", tc |-> i] : i \in 0..3}
    \cup {[kind |-> "LocalTimestamp2", ts |-> i] : i \in 1..6}
    \cup {[kind |-> "Extension", c |-> c, d |-> i, s |-> f] :
             c \in BOOLEAN, i \in 0..7, f \in BOOLEAN}

\* itm.rs:118-151
encode(h) ==
    CASE h.kind = "Sync" -> 0
      [] h.kind = "Overflow" -> 112
      [] h.kind = "LocalTimestamp1" -> bitor(192, shl(h.tc, 4))
      [] h.kind = "LocalTimestamp2" -> bitor(0, shl(h.ts, 4))
      [] h.kind = "GlobalTimestamp1" -> 148
      [] h.kind = "GlobalTimestamp2" -> 180
      [] h.kind = "Extension" ->
            bitor(bitor(bitor(8, shl(h.d % 8, 4)),
                        IF h.c THEN 128 ELSE 0),
                  IF h.s THEN 4 ELSE 0)
      [] h.kind = "Instrumentation" -> bitor(bitor(0, shl(h.a, 3)), h.ss)
      [] h.kind = "Hardware" -> bitor(bitor(4, shl(h.a, 3)), h.ss)

\* Option<ITMHeader>
None == [kind |-> "None"]

\* itm.rs:153-200: the table of 256 entries, indexed by the byte; set
\* panics when two headers have the same encoding
itm_hdrs ==
    [b \in 0..255 |->
        LET m == {h \in ITMHeaders : encode(h) = b}
        IN  IF m = {} THEN None
            ELSE IF Cardinality(m) = 1 THEN CHOOSE h \in m : TRUE
            ELSE [kind |-> "panic"]]

\* itm.rs:217-228, the closure compressed: the loop from index ndx on
RECURSIVE compressed_from(_, _, _)
compressed_from(payload, most, ndx) ==
    IF ndx < Len(payload) % 256
       /\ ~(ndx = most - 1 \/ At(payload, ndx) \div 128 = 1)
    THEN compressed_from(payload, most, ndx + 1)
    ELSE ndx + 1

compressed(payload, most) == compressed_from(payload, most, 0)

\* itm.rs:209-215, the closure expect
expect(payload, size) ==
    IF Len(payload) < size THEN "AwaitingPayload" ELSE "Complete"

\* itm.rs:203-249
itm_packet_state(h, payload) ==
    CASE h.kind = "Sync" -> expect(payload, 5)
      [] h.kind = "Overflow" -> "Complete"
      [] h.kind = "LocalTimestamp1" -> expect(payload, compressed(payload, 4))
      [] h.kind = "LocalTimestamp2" -> "Complete"
      [] h.kind = "GlobalTimestamp1" -> expect(payload, compressed(payload, 4))
      [] h.kind = "GlobalTimestamp2" -> expect(payload, 4)
      [] h.kind = "Extension" -> expect(payload, compressed(payload, 4))
      [] h.kind \in {"Instrumentation", "Hardware"} ->
            CASE h.ss = 1 -> expect(payload, 1)
              [] h.ss = 2 -> expect(payload, 2)
              [] h.ss = 3 -> expect(payload, 4)
              [] OTHER -> "panic"

\* itm.rs:251-269
itm_payload_decode(h, payload) ==
    IF h.kind = "Instrumentation"
    THEN [kind |-> "Instrumentation", port |-> h.a, payload |-> payload]
    ELSE None

\* the bytes a stream is made of here: 0x00 (Sync), 0x80 and 0x04 (no
\* header), one header of every kind, and 0x7f
TraceBytes ==
    {0, 128, 4, 1, 2, 3, 5, 255, 16, 112, 192, 148, 180, 8, 127}
\* the bytes of a payload here: with and without the top bit
PayloadBytes == {0, 127, 128}

\* what a call of the closure leaves alone
tracerest == <<hex, subargs, results, start, max, nwritten, bar, written,
               nbatches, polls, elapsed, status, errdata, wresults, bankraw,
               arg, ret, lineno, headers, hexdata, recs, ops, lap, addr, file>>

\* itm.rs:280-289
IngestInit ==
    /\ pc = "ingest"
    /\ arg = <<>>
    /\ ret = <<>>
    /\ hex = <<>>
    /\ subargs = <<>>
    /\ results = <<>>
    /\ start = 0
    /\ max = 0
    /\ nwritten = 0
    /\ bar = 0
    /\ written = <<>>
    /\ nbatches = 0
    /\ polls = 0
    /\ elapsed = 0
    /\ status = 0
    /\ err = NoErr
    /\ errdata = <<>>
    /\ wresults = <<>>
    /\ bankraw = <<>>
    /\ lineno = 0
    /\ headers = <<>>
    /\ hexdata = <<>>
    /\ recs = <<>>
    /\ ops = <<>>
    /\ lap = 0
    /\ addr = 0
    /\ file = <<>>
    /\ ItmIdle

\* itm.rs:295-310, the search for synchronization: the runlen it leaves
\* and whether it declares synchronization
search_runlen(b, run) ==
    CASE b = 0 -> run + 1
      [] b = 128 -> run
      [] OTHER -> 0

search_state(b, run) ==
    IF b = 128 /\ run >= 5 THEN "Ingesting" ELSE "SyncSearching"

\* itm.rs:291-361, one call of the closure, with the byte b; cb is what the
\* callback returns if it is invoked.  When the callback fails the closure
\* returns its error through the ? of 337-342 with pstate left at Complete
\* (345 is not reached): pc = "error" says that a call has returned an
\* error.  A panic ends everything.
IngestPacket ==
    /\ pc \in {"ingest", "error"}
    /\ ncalls < MaxPackets
    /\ \E b \in TraceBytes, cb \in {"Ok", "Err"} :
          /\ (state = "SyncSearching" /\ b = 0) => runlen < MaxRun
          /\ (state = "Ingesting" /\ pstate = "AwaitingPayload") =>
                b \in PayloadBytes
          /\ datum' = b
          /\ IF state = "SyncSearching"
             THEN /\ runlen' = search_runlen(b, runlen)
                  /\ state' = search_state(b, runlen)
                  /\ zeros' = IF b = 0 THEN zeros + 1 ELSE 0
                  /\ packet' = NoPacket
                  /\ UNCHANGED <<pc, err, pstate, vec, hdr, ncalls>>
             ELSE IF pstate = "Complete"
                     \/ (pstate = "AwaitingHeader" /\ itm_hdrs[b] = None)
             THEN /\ pc' = "panic"
                  /\ err' = IF pstate = "Complete"
                            THEN "unexpected packet state"
                            ELSE "unrecognized ITM header"
                  /\ packet' = NoPacket
                  /\ UNCHANGED <<state, pstate, vec, hdr, runlen, zeros,
                                 ncalls>>
             ELSE LET h == IF pstate = "AwaitingHeader"
                           THEN itm_hdrs[b] ELSE hdr
                      payload == IF pstate = "AwaitingHeader"
                                 THEN <<>> ELSE Append(vec, b)
                      ps == itm_packet_state(h, payload)
                  IN  /\ hdr' = h
                      /\ vec' = payload
                      /\ UNCHANGED <<state, runlen, zeros>>
                      /\ IF ps = "panic"
                         THEN /\ pc' = "panic"
                              /\ err' = "invalid ss"
                              /\ pstate' = pstate
                              /\ packet' = NoPacket
                              /\ ncalls' = ncalls
                         ELSE IF ps # "Complete"
                         THEN /\ pstate' = ps
                              /\ packet' = NoPacket
                              /\ UNCHANGED <<pc, err, ncalls>>
                         ELSE /\ ncalls' = ncalls + 1
                              /\ packet' =
                                    [header |-> h,
                                     payload |-> itm_payload_decode(h, payload)]
                              /\ IF cb = "Ok"
                                 THEN /\ pstate' = "AwaitingHeader"
                                      /\ UNCHANGED <<pc, err>>
                                 ELSE /\ pstate' = "Complete"
                                      /\ pc' = "error"
                                      /\ err' = "callback error"
    /\ UNCHANGED tracerest

IngestNext == IngestPacket

IngestSpec == IngestInit /\ [][IngestNext]_vars

(***************************************************************************)
(* What the claims speak about                                             *)
(***************************************************************************)
IsPrefix(s, t) == Len(s) <= Len(t) /\ s = SubSeq(t, 1, Len(s))

\* the preflight batch returned
PreflightReturned == results # <<>>

\* the IC_DEVICE_ID read returned exactly the image's four bytes
DeviceIdMatches ==
    /\ PreflightReturned
    /\ At(results, 0).ok
    /\ At(results, 0).val = hex.ic_device_id

\* the slot count was read as a 32-bit word, and its value
SlotCountRead ==
    PreflightReturned /\ At(results, 3).ok /\ Len(At(results, 3).val) = 4

SlotCount ==
    LET b == At(results, 3).val
    IN  b[1] + 256 * b[2] + 65536 * b[3] + 16777216 * b[4]

\* the device CRC was read as a 32-bit word, and its value
DeviceCrcRead ==
    PreflightReturned /\ At(results, 5).ok /\ Len(At(results, 5).val) = 4

DeviceCrc ==
    LET b == At(results, 5).val
    IN  b[1] + 256 * b[2] + 65536 * b[3] + 16777216 * b[4]

SlotErrors ==
    {"number of NVM slots is impossibly high; aborting",
     "number of available NVM slots is scarily low; aborting"}

IdentityErrors ==
    {"failed to read IC_DEVICE_ID", "bad length on IC_DEVICE_ID",
     "device mismatch", "IC_DEVICE_ID mismatch"}

\* identity and slot checks passed and the device CRC is known
CrcCompared ==
    DeviceIdMatches /\ SlotCountRead /\ SlotCount \in 10..28 /\ DeviceCrcRead

NothingTransmitted == written = <<>> /\ nbatches = 0 /\ nwritten = 0

\* the write loop ran to its end: the function is in, or went through, Verify
WritePhaseDone == pc \in {"verify", "sleep"} \/ polls > 0

\* the messages of check_programmer_status
ClassifiedFailures ==
    {"flashing failed: CRC mismatch within RAM data",
     "flashing failed: CRC mismatch within OTP data",
     "flashing failed: configurations not available",
     "flashing failed: unknown failure"}

(***************************************************************************)
(* C1..C10: the flash orchestrator                                         *)
(***************************************************************************)
\* C1: a slot count outside [10, 28] makes the operation fail with nothing
\* transmitted, whatever the CRC and the modifiers; with the identity check
\* passed, the slot check rejects the count exactly when it is outside
\* [10, 28].
C1_SlotBounds ==
    SlotCountRead =>
        /\ (SlotCount < 10 \/ SlotCount > 28) =>
               pc = "failed" /\ NothingTransmitted /\ polls = 0
        /\ DeviceIdMatches =>
               ((err \in SlotErrors) <=> (SlotCount < 10 \/ SlotCount > 28))

\* a count of 28 passed the slot check of a forced flash and records went out
C1_Witness ==
    /\ DeviceIdMatches /\ SlotCountRead /\ SlotCount = 28
    /\ subargs.force /\ DeviceCrcRead /\ DeviceCrc = hex.crc
    /\ written # <<>>

\* C2: when the IC_DEVICE_ID read fails, has another length than 4 or
\* differs from the image's device-ID in any byte, the operation fails with
\* an identity error and no data record is ever transmitted.
C2_DeviceIdMismatchFatal ==
    (PreflightReturned /\ ~DeviceIdMatches) =>
        /\ pc = "failed"
        /\ err \in IdentityErrors
        /\ NothingTransmitted
        /\ polls = 0

\* the device answered with an ID that differs in the last byte only, with
\* a good slot count, --force and differing CRCs
C2_Witness ==
    /\ PreflightReturned
    /\ At(results, 0).ok
    /\ Len(At(results, 0).val) = 4
    /\ SubSeq(At(results, 0).val, 1, 3) = SubSeq(hex.ic_device_id, 1, 3)
    /\ At(results, 0).val[4] # hex.ic_device_id[4]
    /\ SlotCountRead /\ SlotCount = 10
    /\ subargs.force
    /\ err = "IC_DEVICE_ID mismatch"

\* C3: with equal CRCs and neither --force nor --check the operation fails
\* without a single write or verify poll; when the preflight got as far as
\* the CRC comparison the failure is the "CRCs match, use --force" one.
C3_CrcMatchNeedsForce ==
    (DeviceCrcRead /\ DeviceCrc = hex.crc /\ ~subargs.force /\ ~subargs.check)
        => /\ pc = "failed"
           /\ NothingTransmitted
           /\ polls = 0
           /\ CrcCompared =>
                  err = "image CRC matches OTP CRC; use --force to force"

C3_Witness ==
    /\ CrcCompared /\ DeviceCrc = hex.crc
    /\ ~subargs.force /\ ~subargs.check /\ subargs.dryrun
    /\ err = "image CRC matches OTP CRC; use --force to force"

\* C4: with --check set nothing is ever written and no verify poll is
\* issued, whatever the CRCs, the slot count, --force and --dry-run.
C4_CheckOnlyNeverWrites ==
    subargs.check =>
        /\ NothingTransmitted
        /\ polls = 0
        /\ pc \in {"preflight", "done", "failed"}

\* --check with --force and --dry-run on differing CRCs: ended, not written
C4_Witness ==
    /\ subargs.check /\ subargs.force /\ subargs.dryrun
    /\ CrcCompared /\ DeviceCrc # hex.crc
    /\ pc = "failed"

\* C5: with --check set and the identity and slot checks passed, the
\* operation succeeds exactly when the image CRC equals the device CRC, with
\* or without --force, and fails with the mismatch message otherwise.
C5_CheckOnlyOutcome ==
    (subargs.check /\ CrcCompared) =>
        /\ (pc = "done") <=> (DeviceCrc = hex.crc)
        /\ (pc = "failed") <=> (DeviceCrc # hex.crc)
        /\ pc = "failed" => err = "image CRC does not match OTP CRC"

\* --check without --force on equal CRCs ended in success
C5_Witness ==
    /\ subargs.check /\ ~subargs.force
    /\ CrcCompared /\ DeviceCrc = hex.crc
    /\ pc = "done"

\* C6: in a dry run the records transmitted are, in order, a prefix of the
\* indices 1..len-2, and all of them once the write loop has ended: len-2
\* writes, never index 0 and never index len-1 (1..8 for len = 10).
C6_DryRunRange ==
    subargs.dryrun =>
        LET len == Len(hex.data)
        IN  /\ IsPrefix(written, [k \in 1..(len - 2) |-> k])
            /\ \A k \in 1..Len(written) : written[k] \notin {0, len - 1}
            /\ WritePhaseDone =>
                   /\ written = [k \in 1..(len - 2) |-> k]
                   /\ Len(written) = len - 2
                   /\ len = 10 => written = <<1, 2, 3, 4, 5, 6, 7, 8>>

C6_Witness ==
    /\ subargs.dryrun
    /\ Len(hex.data) = 10
    /\ pc = "verify"
    /\ written = <<1, 2, 3, 4, 5, 6, 7, 8>>

\* C7: in normal mode the records transmitted are always the first ones of
\* the file in file order, none skipped, repeated or reordered, and all
\* len of them once the write loop has ended.
C7_NormalModeAllInOrder ==
    ~subargs.dryrun =>
        LET len == Len(hex.data)
        IN  /\ IsPrefix(written, [k \in 1..len |-> k - 1])
            /\ WritePhaseDone => written = [k \in 1..len |-> k - 1]

\* a full image went out in 21 batches
C7_Witness ==
    /\ ~subargs.dryrun
    /\ Len(hex.data) = 646
    /\ pc = "verify"
    /\ Len(written) = 646
    /\ written[1] = 0 /\ written[33] = 32 /\ written[646] = 645
    /\ nbatches = 21

\* the batch position of the first refused write of the latest batch
first_failed_position ==
    CHOOSE j \in 1..Len(wresults) :
        ~wresults[j].ok /\ \A k \in 1..(j - 1) : wresults[k].ok

\* the record whose write failed first in the latest batch
FailedRecord == start + first_failed_position - 1

\* C8 as claimed: when the write of record i is refused the operation fails
\* naming record i's payload, no record after i was transmitted and Verify
\* is never entered.
C8_AbortsImmediately ==
    err = "failed to write" =>
        /\ errdata = At(hex.data, FailedRecord)
        /\ \A k \in 1..Len(written) : written[k] <= FailedRecord
        /\ polls = 0

\* C9: when the verify loop ends on programmer-status failures, the result
\* is the classification of the status word of the last poll and the window
\* is over; a word with bit 4 set and bit 0 clear gives the RAM mismatch.
VerifyGaveUp ==
    /\ pc = "failed"
    /\ polls >= 1
    /\ err \notin {RunError, "programmer status failed",
                   "bad length on status", "bank status failed",
                   "short bank status", "bank invalid"}

C9_LastFailureSurfaced ==
    VerifyGaveUp =>
        /\ err \in ClassifiedFailures
        /\ status % 2 = 0
        /\ elapsed > 2000
        /\ (status \div 16) % 2 = 1 =>
               err = "flashing failed: CRC mismatch within RAM data"
        /\ ((status \div 16) % 2 = 0 /\ (status \div 64) % 2 = 1) =>
               err = "flashing failed: CRC mismatch within OTP data"

\* 22 polls, 100ms apart, all with bit 4 set: the last one is past 2s
C9_Witness ==
    /\ pc = "failed"
    /\ polls = 22
    /\ elapsed = 2100
    /\ status = 16
    /\ err = "flashing failed: CRC mismatch within RAM data"

\* C10: a poll that gets to classify its status word as success ends the
\* operation in success at once; a classified failure is surfaced only once
\* more than 2s have passed, and until then it leads to the sleep and the
\* next poll.
C10_SuccessExitsFailureRetried ==
    /\ (polls >= 1 /\ status % 2 = 1) =>
           \/ pc = "done" /\ err = NoErr
           \/ pc = "failed" /\ err \in {"bank status failed",
                                        "short bank status", "bank invalid"}
    /\ pc = "done" => ~ENABLED Next
    /\ (pc = "failed" /\ err \in ClassifiedFailures) => elapsed > 2000
    /\ pc = "sleep" =>
           /\ status % 2 = 0
           /\ elapsed <= 2000
           /\ ENABLED Sleep

\* a failure on the first poll was retried and the second poll succeeded
C10_Witness ==
    /\ pc = "done"
    /\ polls = 2
    /\ elapsed = 100
    /\ status = 1

\* ---- C11 ----
\* a poll at elapsed 0, 100, ..., 2000 goes back to sleep; the next one is
\* past the deadline
MaxPolls == DeadlineMs \div SleepMs + 2

\* C11: the Verify phase always terminates. From the entry to Verify, with
\* the clock advancing by at least 100 ms per sleep, the loop polls at least
\* once before it leaves, never polls more than MaxPolls times, and ends in
\* done or failed.
C11_VerifyTerminates ==
    /\ [](polls <= MaxPolls)
    /\ [](polls >= 1 => elapsed >= SleepMs * (polls - 1))
    /\ [](pc # "verify" => polls >= 1)
    /\ <>(pc \in {"done", "failed"})

\* the last poll the deadline allows: 21 sleeps of exactly 100 ms, every
\* poll classified as a failure, the operation ended by the deadline
C11_Witness ==
    /\ pc = "failed"
    /\ polls = MaxPolls
    /\ elapsed = SleepMs * (MaxPolls - 1)
    /\ VerifyGaveUp

\* ---- C12 ----
\* the 4-bit values found in a block of bytes
Nibbles(bytes) ==
    {bytes[k] % 16 : k \in 1..Len(bytes)} \cup
    {bytes[k] \div 16 : k \in 1..Len(bytes)}

UndefinedBankSeen ==
    /\ Len(bankraw) = 8
    /\ \E n \in Nibbles(bankraw) : n \notin {0, 1, 2, 4, 8}

\* C12: a verify poll whose bank status block holds a nibble that is not a
\* defined code ends the operation at once with "bank invalid", whatever
\* the programmer status word of that poll says.
C12_InvalidBankIsHardFailure ==
    UndefinedBankSeen => pc = "failed" /\ err = "bank invalid"

\* first poll, well before the deadline, status word with bit 0 set and a
\* bank nibble of 3
C12_Witness ==
    /\ UndefinedBankSeen
    /\ polls = 1
    /\ elapsed = 0
    /\ Bit(status, 0) = 1
    /\ pc = "failed"
    /\ err = "bank invalid"

\* ---- C13 ----
\* C13: no executor error is swallowed. Once the preflight batch returned,
\* an error outcome of any of its six calls (device ID read, revision read,
\* and the SET_ADDRESS write and SEQUENTIAL_TRANSFER read of both indirect
\* reads) has made the operation fail, and so has an error outcome of any
\* record write of the latest write batch.
C13_NoErrorSwallowed ==
    /\ (PreflightReturned /\ \E i \in 1..Len(results) : ~results[i].ok)
          => pc = "failed"
    /\ (\E j \in 1..Len(wresults) : ~wresults[j].ok) => pc = "failed"

\* ---- C14 ----
Returned(fn) == pc = "returned" /\ arg.fn = fn

\* C14: for every 8-bit id, from_id gives the GenTwo device exactly for the
\* ids of the GenTwo table, the GenTwoFive device exactly for the ids of the
\* GenTwoFive table and the unknown-device error for every other id; the
\* tables are disjoint, are the 47 variants of the enums, and the "matches
\* both" panic is never the outcome.
C14_FromIdExact ==
    Returned("from_id") =>
        /\ ret.id = arg.in
        /\ ret.device # "panic"
        /\ ret.device = "RendmpGenTwo" <=> arg.in \in RendmpGenTwo
        /\ ret.device = "RendmpGenTwoFive" <=> arg.in \in RendmpGenTwoFive
        /\ ret.device = "unknown"
              <=> arg.in \notin {v[3] : v \in Variants}
        /\ RendmpGenTwo \cap RendmpGenTwoFive = {}
        /\ RendmpGenTwo \cup RendmpGenTwoFive = {v[3] : v \in Variants}

\* 0x99, RAA229618, the one id above 0x7f
C14_Witness ==
    /\ Returned("from_id")
    /\ arg.in = 153
    /\ ret.device = "RendmpGenTwoFive"

\* ---- C15 ----
\* c is the upper-case letter d in some letter case
SameLetter(c, d) ==
    \/ c = d
    \/ d >= 65 /\ d <= 90 /\ c = d + 32
    \/ d = 73 /\ c = 305
    \/ d = 83 /\ c = 383

IsNameOf(s, v) ==
    LET n == Letters(v[1]) \o Digits(v[2])
    IN  Len(s) = Len(n) /\ \A k \in 1..Len(n) : SameLetter(s[k], n[k])

GenerationOf(v) ==
    IF v[3] \in {115, 117, 118, 153} THEN "RendmpGenTwoFive"
    ELSE "RendmpGenTwo"

\* C15: from_str of the display name of a model, in any letter case, is
\* that model, with its generation and its id; from_str of a string that
\* is the name of no model is the unknown-device error.
C15_NameRoundTrip ==
    Returned("from_str") =>
        IF \E v \in Variants : IsNameOf(arg.in, v)
        THEN \A v \in Variants :
                IsNameOf(arg.in, v) =>
                    /\ ret.err = NoErr
                    /\ ret.id = v[3]
                    /\ ret.device = GenerationOf(v)
        ELSE ret.err = NoMatch

\* "raa229618"
C15_Witness ==
    /\ Returned("from_str")
    /\ arg.in = <<114, 97, 97, 50, 50, 57, 54, 49, 56>>
    /\ ret.err = NoErr
    /\ ret.id = 153
    /\ ret.device = "RendmpGenTwoFive"

\* ---- C16 ----
StatusFailures ==
    <<"flashing failed: CRC mismatch within RAM data",
      "flashing failed: CRC mismatch within OTP data",
      "flashing failed: configurations not available",
      "flashing failed: unknown failure">>

\* C16: for every 16-bit programmer status word the result is success
\* exactly when bit 0 is set; otherwise it is the RAM CRC mismatch if bit 4
\* is set, else the OTP CRC mismatch if bit 6 is set, else configurations
\* not available if bit 8 is set, else unknown failure; the four failures
\* are distinct.
C16_StatusPriority ==
    Returned("check_programmer_status") =>
        LET set(n) == (arg.in \div (2 ^ n)) % 2 = 1
        IN  /\ ret = NoErr <=> set(0)
            /\ ~set(0) /\ set(4) => ret = StatusFailures[1]
            /\ ~set(0) /\ ~set(4) /\ set(6) => ret = StatusFailures[2]
            /\ ~set(0) /\ ~set(4) /\ ~set(6) /\ set(8)
                 => ret = StatusFailures[3]
            /\ ~set(0) /\ ~set(4) /\ ~set(6) /\ ~set(8)
                 => ret = StatusFailures[4]
            /\ Cardinality({StatusFailures[k] : k \in 1..4} \cup {NoErr}) = 5

\* 0x150: bits 4, 6 and 8 set, bit 0 clear
C16_Witness ==
    /\ Returned("check_programmer_status")
    /\ arg.in = 336
    /\ ret = "flashing failed: CRC mismatch within RAM data"

\* ---- C17 ----
\* the nibble behind entry k of a decoded block: low nibble first
NibbleAt(bytes, k) ==
    IF k % 2 = 1 THEN bytes[(k + 1) \div 2] % 16 ELSE bytes[k \div 2] \div 16

\* the nibble values of a block that were decoded to Some
DecodedCodes ==
    {NibbleAt(arg.in, k) : k \in {j \in 1..Len(ret.val) : ret.val[j] # "None"}}

ZeroBlockUnaffected ==
    arg.in = ZeroBanks =>
        /\ Len(ret.val) = 16
        /\ \A k \in 1..16 : ret.val[k] = "BankUnaffected"

ShortBlockFails ==
    Len(arg.in) # 8 <=> ret.err = "short bank status" /\ ret.val = <<>>

\* C17 as stated: the nibbles of a status block decode to Some for four
\* codes only; a block of zero bytes decodes to 16 BankUnaffected entries
\* and a block that is not 8 bytes long fails with the short-status error.
C17_FourDefinedCodes ==
    Returned("bank_status") =>
        /\ Cardinality(DecodedCodes) <= 4
        /\ ZeroBlockUnaffected
        /\ ShortBlockFails

\* C17: each nibble of a status block decodes to Some exactly for the five
\* codes 0, 1, 2, 4 and 8 and to None otherwise; a block of zero bytes
\* decodes to 16 BankUnaffected entries and a block that is not 8 bytes
\* long fails with the short-status error.
C17_FiveDefinedCodes ==
    Returned("bank_status") =>
        /\ ShortBlockFails
        /\ ZeroBlockUnaffected
        /\ Len(arg.in) = 8 =>
              /\ ret.err = NoErr
              /\ Len(ret.val) = 16
              /\ \A k \in 1..16 :
                    ret.val[k] # "None"
                        <=> NibbleAt(arg.in, k) \in {0, 1, 2, 4, 8}

\* the block with every nibble value: five of them are decoded
C17_Witness ==
    /\ Returned("bank_status")
    /\ arg.in = AllNibbles
    /\ DecodedCodes = {0, 1, 2, 4, 8}

\* ---- C18 ----
\* the line is a record (not blank, not a comment, an even number of
\* hexadecimal digits, a known kind, a length byte that counts the bytes
\* after it) whose third byte, shifted right by one, is not the address
WrongAddressRecord(line, address) ==
    LET vals == hex_decode(line, 0, <<>>).vals
    IN  /\ line # <<>>
        /\ Head(line) # 35
        /\ hex_decode(line, 0, <<>>).outcome = "Ok"
        /\ Len(vals) >= 3
        /\ vals[1] \in {0, 73}
        /\ vals[2] = Len(vals) - 2
        /\ vals[3] \div 2 # address

WrongAddressLines ==
    {k \in 1..Len(arg.file) : WrongAddressRecord(arg.file[k], arg.address)}

\* C18: parsing a file that has, at any of its lines, a record whose third
\* byte shifted right by one differs from the address argument returns no
\* Image: the parse has ended at that record or before it, and where it
\* got to that record it failed with the address error.
C18_AddressMismatchFails ==
    (Returned("from_file") /\ WrongAddressLines # {}) =>
        /\ ret.outcome # "Ok"
        /\ ret.hex = NoImage
        /\ \A k \in WrongAddressLines :
              /\ lineno <= k
              /\ lineno = k =>
                    ret.outcome = "Err" /\ ret.err = "image specifies address"

\* the last line of an otherwise well-formed image of 648 lines
C18_Witness ==
    /\ Returned("from_file")
    /\ Len(arg.file) = lines("RendmpGenTwo")
    /\ WrongAddressLines = {Len(arg.file)}
    /\ lineno = Len(arg.file)
    /\ ret.outcome = "Err"
    /\ ret.err = "image specifies address"

\* ---- C19 ----
\* C19: parsing a file has two possible outcomes, a complete Image or a
\* parse error with no Image; it never crashes, whatever the lines are:
\* lines of two or three bytes and records with an empty payload included.
C19_ImageOrError ==
    Returned("from_file") =>
        \/ /\ ret.outcome = "Ok"
           /\ ret.hex.data = hexdata
           /\ lineno = Len(arg.file)
        \/ /\ ret.outcome = "Err"
           /\ ret.hex = NoImage

\* ---- C20 ----
\* the payload stored for the k-th accepted record
StoredPayload(k) ==
    IF recs[k].kind = "Header" THEN headers[recs[k].at]
    ELSE hexdata[recs[k].at]

\* C20 as stated: the stored payload of every accepted record, header or
\* data, is as long as the record's length byte says.
C20_PayloadLengthIsDeclared ==
    \A k \in 1..Len(recs) : Len(StoredPayload(k)) = recs[k].reclen

\* C20: the stored payload of every accepted record, header or data, is two
\* bytes shorter than the record's length byte says: the length byte also
\* counts the address byte and the last byte of the line.
C20_PayloadLengthIsDeclaredLessTwo ==
    /\ Len(recs) = Len(headers) + Len(hexdata)
    /\ \A k \in 1..Len(recs) : Len(StoredPayload(k)) = recs[k].reclen - 2

\* a whole image accepted: headers of 5 bytes (length byte 7), data of
\* 1 to 5 bytes
C20_Witness ==
    /\ Returned("from_file")
    /\ ret.outcome = "Ok"
    /\ Len(recs) = lines("RendmpGenTwoFive")
    /\ recs[1].kind = "Header"
    /\ recs[1].reclen = 7
    /\ Len(headers[1]) = 5
    /\ \E k \in 1..Len(recs) : recs[k].kind = "Data" /\ recs[k].reclen = 3

\* ---- C21 ----
\* the lines of the file that are neither blank nor comments
RecordLines ==
    {k \in 1..Len(arg.file) : arg.file[k] # <<>> /\ Head(arg.file[k]) # 35}

\* every record line of the file was accepted and the first header names a
\* device: the id is the third of the four bytes after the command code
AllAccepted == Len(recs) = Cardinality(RecordLines)

FirstHeaderId == headers[1][4]

ExpectedLines ==
    IF FirstHeaderId \in {115, 117, 118, 153} THEN 582 ELSE 648

\* C21: every Image the parser returns has as many header and data records
\* together as the model of its first header expects, 648 for GenTwo and
\* 582 for GenTwoFive; a file accepted line by line, with two headers or
\* more and a known model, whose total is another is rejected with the
\* count-mismatch error.
C21_RecordCount ==
    Returned("from_file") =>
        /\ ret.outcome = "Ok" =>
              /\ Len(headers) + Len(hexdata) = ExpectedLines
              /\ Len(headers) + Len(ret.hex.data) = ExpectedLines
              /\ ret.hex.device = (IF ExpectedLines = 582
                                   THEN "RendmpGenTwoFive" ELSE "RendmpGenTwo")
        /\ (/\ AllAccepted
            /\ Len(headers) >= 2
            /\ Len(headers[1]) = 5
            /\ FirstHeaderId \in {v[3] : v \in Variants}
            /\ Len(headers) + Len(hexdata) # ExpectedLines)
              => ret.outcome = "Err" /\ ret.err = "expected total lines"

\* an image of a GenTwoFive model: 2 headers and 580 data records
C21_Witness ==
    /\ Returned("from_file")
    /\ ret.outcome = "Ok"
    /\ ret.hex.device = "RendmpGenTwoFive"
    /\ Len(headers) = 2
    /\ Len(ret.hex.data) = 580

\* ---- C22 ----
\* the data record crc_line puts the CRC in, for the headers of this file
CrcRecord ==
    hexdata[(IF ExpectedLines = 582 THEN 526 ELSE 600) - Len(headers) - 2 + 1]

\* C22: the CRC of every Image the parser returns is the little-endian
\* 32-bit value of the four bytes that follow the command code in the data
\* record at index crc_line - (number of headers) - 2, and that record has
\* exactly those four bytes after the command code.
C22_CrcFromCrcLine ==
    (Returned("from_file") /\ ret.outcome = "Ok") =>
        /\ Len(CrcRecord) = 5
        /\ ret.hex.crc = CrcRecord[2] + 256 * CrcRecord[3]
                            + 65536 * CrcRecord[4] + 16777216 * CrcRecord[5]

\* an image with three headers: the CRC record is the data record 595
C22_Witness ==
    /\ Returned("from_file")
    /\ ret.outcome = "Ok"
    /\ Len(headers) = 3
    /\ hexdata[596] = <<148>> \o to_le_bytes(ImageCrc)
    /\ ret.hex.crc = ImageCrc

\* ---- C23 ----
\* C23: the phases are strictly serialized. Every step of the flash
\* operation is one batch, submitted and completed: the preflight batch is
\* the first step and there is no other; write batches come only after it
\* and only before the first verify poll; once a poll was issued nothing
\* is written any more; a step is never two batches at once.
C23_PhasesSerialized ==
    [][/\ pc = "preflight" => pc' \in {"write", "done", "failed"}
       /\ pc = "write" => pc' \in {"write", "verify", "failed"}
       /\ pc = "verify" => pc' \in {"sleep", "done", "failed"}
       /\ pc = "sleep" => pc' = "verify"
       /\ pc \notin {"done", "failed"}
       /\ results' # results =>
             pc = "preflight" /\ results = <<>> /\ nbatches = 0 /\ polls = 0
       /\ nbatches' # nbatches =>
             /\ pc = "write"
             /\ PreflightReturned
             /\ polls = 0
             /\ nbatches' = nbatches + 1
             /\ UNCHANGED <<results, polls>>
       /\ written' # written => nbatches' = nbatches + 1
       /\ polls' # polls =>
             /\ pc = "verify"
             /\ polls' = polls + 1
             /\ UNCHANGED <<results, nbatches, written, nwritten, bar>>
       /\ polls > 0 => UNCHANGED <<results, nbatches, written, nwritten, bar>>
      ]_vars

\* a flash that went through every phase: preflight, three write batches,
\* two verify polls
C23_Witness ==
    /\ pc = "done"
    /\ PreflightReturned
    /\ nbatches = 3
    /\ polls = 2

\* ---- C24 ----
\* the first index to transmit and the number of records to transmit
FirstIndex == IF subargs.dryrun THEN 1 ELSE 0

ToTransmit == IF subargs.dryrun THEN Len(hex.data) - 2 ELSE Len(hex.data)

\* C24: a write batch carries at most 32 record writes; the k-th batch
\* carries the 32 indices that follow those of the batch before it, or the
\* ones that are left, so that the batches are contiguous, increasing and
\* without overlap and cover exactly the range to transmit; when the write
\* loop has ended, ceil(n / 32) batches were submitted for the n records.
C24_BatchesOf32 ==
    /\ Len(wresults) <= 32
    /\ written = [k \in 1..Len(written) |-> FirstIndex + k - 1]
    /\ Len(written) = Min(32 * nbatches, ToTransmit)
    /\ nbatches > 0 => 32 * (nbatches - 1) < ToTransmit
    /\ WritePhaseDone =>
          /\ Len(written) = ToTransmit
          /\ nbatches = (ToTransmit + 31) \div 32

\* 66 records in three batches: 32, 32 and 2
C24_Witness ==
    /\ pc = "verify"
    /\ ToTransmit = 66
    /\ nbatches = 3
    /\ Len(wresults) = 2
    /\ written[65] = 64

\* ---- C25 ----
\* the count pushed before the call and the number of entries dropped
\* after it
PushedCount == ret.ops[Len(ret.ops) - 2].val

Dropped == ret.ops[Len(ret.ops)].val

\* C25: for a record of any payload length the parser can store, the empty
\* payload included, the operations are put together, the count pushed
\* after the payload bytes is the payload length less one and the number
\* of entries dropped after the call is the payload length plus one.
C25_CountAndDrop ==
    Returned("record_ops") =>
        /\ ret.outcome = "Ok"
        /\ Len(ret.ops) = Len(arg.in) + 3
        /\ PushedCount = Len(arg.in) - 1
        /\ Dropped = Len(arg.in) + 1

\* ---- C26 ----
RECURSIVE RunningBytes(_, _, _, _)
\* the payload bytes of the records lo..hi of data added up one after the
\* other on top of base: a sequence with one running total per record
RunningBytes(data, lo, hi, base) ==
    IF lo > hi THEN <<>>
    ELSE IF lo = hi THEN <<base + Len(data[lo])>>
    ELSE LET mid == (lo + hi) \div 2
             left == RunningBytes(data, lo, mid, base)
         IN  left \o RunningBytes(data, mid + 1, hi, left[Len(left)])

\* the running totals of every image
ImageBytes == {<<h, RunningBytes(h.data, 1, Len(h.data), 0)>> : h \in Images}

\* the payload bytes of the first k data records of the image in hand
BytesUpTo(k) ==
    IF k = 0 THEN 0 ELSE (CHOOSE p \in ImageBytes : p[1] = hex)[2][k]

\* the payload bytes of the data records at the 0-based indices lo..hi
BytesOf(lo, hi) == IF lo > hi THEN 0 ELSE BytesUpTo(hi + 1) - BytesUpTo(lo)

\* lib.rs:1008: the total the bar is created with
nbytes == BytesUpTo(Len(hex.data))

\* the last write batch was submitted and context.run returned an error
LastBatchLost == pc = "failed" /\ err = RunError /\ nbatches > 0 /\ polls = 0

\* the records whose batches have come back
Transmitted ==
    IF LastBatchLost THEN Min(nwrites * (nbatches - 1), ToTransmit)
    ELSE Len(written)

\* C26: the bar shows the payload bytes of the records of the batches
\* that came back so far, never goes back, never exceeds the total it was
\* created with, and in normal mode shows that total when the write phase
\* is through.
C26_ProgressIsBytesSent ==
    /\ [](/\ bar = BytesOf(FirstIndex, FirstIndex + Transmitted - 1)
          /\ bar <= nbytes
          /\ (WritePhaseDone /\ ~subargs.dryrun) => bar = nbytes)
    /\ [][bar' >= bar]_vars

C26_Witness ==
    /\ pc = "verify"
    /\ ~subargs.dryrun
    /\ nbatches = 3
    /\ Len(hex.data) = 2 * nwrites + 2
    /\ bar = nbytes
    /\ bar > Len(hex.data)

\* ---- C27 ----
\* the outcome, among res, of the call of calls that reads reg (of `what`)
OutcomeOf(res, calls, reg, what) ==
    res[CHOOSE i \in 1..Len(calls) :
            calls[i] = [fn |-> "i2c_read", reg |-> reg, of |-> what]]

IdOutcome == OutcomeOf(arg.in.res, preflight_calls, "IC_DEVICE_ID", "block")

SlotsOutcome == OutcomeOf(arg.in.res, preflight_calls, "DMASEQ", "slot_addr")

CrcOutcome == OutcomeOf(arg.in.res, preflight_calls, "DMASEQ", "crc_addr")

StatusOutcome ==
    OutcomeOf(arg.in.res, verify_calls, "DMASEQ", "programmer_status_addr")

BanksOutcome ==
    OutcomeOf(arg.in.res, verify_calls, "DMASEQ", "bank_status_addr")

\* C27: what the flash path takes for the device identifier, the slot
\* count and the device CRC are the outcomes of the calls that read them
\* in the preflight batch, and what it takes for the programmer status and
\* the bank status are the outcomes of the calls that read them in the
\* verify batch: a read that failed is reported as that read's failure, a
\* read that succeeded is never reported as failed, and the path goes on
\* only on the values these reads returned.
C27_OutcomeOfProducingCall ==
    /\ Returned("preflight_checks") =>
          /\ Len(arg.in.res) = Len(preflight_calls)
          /\ ret.err = "failed to read IC_DEVICE_ID" <=> ~IdOutcome.ok
          /\ ret.err \in {"device mismatch", "IC_DEVICE_ID mismatch"} <=>
                /\ IdOutcome.ok
                /\ Len(IdOutcome.val) = 4
                /\ IdOutcome.val # SmallImage.ic_device_id
          /\ ret.err = "failed to read available slots" <=>
                IdOutcome = Ok(SmallImage.ic_device_id) /\ ~SlotsOutcome.ok
          /\ ret.err \in SlotErrors =>
                /\ SlotsOutcome.ok
                /\ from_le_bytes(SlotsOutcome.val) \notin MinSlots..MaxSlots
          /\ ret.err = "failed to read CRC" <=>
                /\ IdOutcome = Ok(SmallImage.ic_device_id)
                /\ SlotsOutcome.ok
                /\ Len(SlotsOutcome.val) = 4
                /\ from_le_bytes(SlotsOutcome.val) \in MinSlots..MaxSlots
                /\ ~CrcOutcome.ok
          /\ ret.pc \in {"write", "done"} =>
                /\ IdOutcome = Ok(SmallImage.ic_device_id)
                /\ SlotsOutcome.ok
                /\ from_le_bytes(SlotsOutcome.val) \in MinSlots..MaxSlots
                /\ CrcOutcome.ok
                /\ Len(CrcOutcome.val) = 4
                /\ arg.in.args.check =>
                      from_le_bytes(CrcOutcome.val) = SmallImage.crc
    /\ Returned("verify_poll") =>
          /\ Len(arg.in.res) = Len(verify_calls)
          /\ ret.err = "programmer status failed" <=> ~StatusOutcome.ok
          /\ ret.err = "bad length on status" <=>
                StatusOutcome.ok /\ Len(StatusOutcome.val) # 2
          /\ ret.err = "bank status failed" <=>
                /\ StatusOutcome.ok
                /\ Len(StatusOutcome.val) = 2
                /\ ~BanksOutcome.ok
          /\ ret.pc = "done" =>
                /\ StatusOutcome.ok
                /\ Bit(from_le_bytes(StatusOutcome.val), 0) = 1
                /\ BanksOutcome.ok
                /\ Len(BanksOutcome.val) = 8
          /\ ret.err \in ClassifiedFailures =>
                /\ StatusOutcome.ok
                /\ Bit(from_le_bytes(StatusOutcome.val), 0) = 0
                /\ BanksOutcome.ok

\* the path went on to the writes on the slot count and the CRC that were
\* read, although the DMAADDR write between the two reads was refused
C27_Witness ==
    /\ Returned("preflight_checks")
    /\ ret.pc = "write"
    /\ from_le_bytes(SlotsOutcome.val) = MaxSlots
    /\ from_le_bytes(CrcOutcome.val) = ImageCrc
    /\ ~arg.in.res[5].ok

\* ---- C28 ----
ProtocolErrors ==
    {"no DMAADDR command found; is this a Renesas device?", "DMAADDR mismatch",
     "no DMASEQ command found; is this a Renesas device?", "DMASEQ mismatch"}

\* DMAADDR is known as a 16-bit write and DMASEQ as a 32-bit read
AddrDeclared == arg.all.DMAADDR.found /\ arg.all.DMAADDR.write = "WriteWord"

SeqDeclared == arg.all.DMASEQ.found /\ arg.all.DMASEQ.read = "ReadWord32"

\* no batch was submitted to the executor and nothing came of one
NothingSubmitted ==
    /\ ops = <<>>
    /\ results = <<>>
    /\ lap = 0
    /\ addr = 0
    /\ file = <<>>

\* C28: when DMAADDR is missing from the database or is not a 16-bit write,
\* or DMASEQ is missing or is not a 32-bit read, each of the operations
\* (CRC report, slot report, flash, dump) ends in failure with the lookup's
\* error, and no batch is ever submitted; with both declared as expected
\* no operation ends with such an error.
C28_LookupBeforeAnyBatch ==
    /\ pc = "lookup" => NothingSubmitted
    /\ (pc # "lookup" /\ ~(AddrDeclared /\ SeqDeclared)) =>
          /\ pc = "failed"
          /\ err \in ProtocolErrors
          /\ NothingSubmitted
    /\ (pc # "lookup" /\ AddrDeclared /\ SeqDeclared) =>
          err \notin ProtocolErrors

\* a dump asked of a device whose DMASEQ is declared as a 16-bit read
C28_Witness ==
    /\ pc = "failed"
    /\ arg.op = "dump"
    /\ AddrDeclared
    /\ arg.all.DMASEQ.found
    /\ arg.all.DMASEQ.read = "ReadWord"
    /\ err = "DMASEQ mismatch"

\* ---- C29 ----
\* a dump got to its laps
Dumping == arg.op = "dump" /\ ops # <<>>

\* the lap whose batch was submitted last
LastLap == IF pc = "failed" THEN lap ELSE lap - 1

IsReset(c) == c.fn = "i2c_write" /\ c.reg = "DMAADDR" /\ c.of = "zero"

IsRead(c) == c.fn = "i2c_read" /\ c.reg = "DMASEQ" /\ c.len = 128

\* the outcomes of the reads of the batch submitted last
ReadResults(res, n) == IF n = 0 THEN Tail(res) ELSE res

\* C29: the batch of the first lap sets the address to zero as its first
\* call and no batch of a later lap sets it; every batch has exactly 8
\* reads of 128 bytes; a lap whose reads all succeed writes their 8 chunks
\* and moves the byte count and the progress by their lengths, 1024 when
\* each has 128 bytes; the progress never goes back nor beyond the memory
\* size, and the dump is through after lap 256 and not before.
C29_DumpLaps ==
    /\ [](Dumping =>
            /\ LastLap \in 0..(256 - 1)
            /\ Cardinality({k \in 1..Len(ops) : IsRead(ops[k])}) = 8
            /\ LastLap = 0 => Len(ops) = 9 /\ IsReset(ops[1])
            /\ LastLap > 0 => Len(ops) = 8
            /\ bar <= memsize
            /\ pc = "done" <=> lap = 256
            /\ pc = "done" => bar = addr)
    /\ [][/\ bar' >= bar
          /\ (Dumping' /\ lap' # lap) =>
                LET reads == ReadResults(results', lap)
                IN  /\ lap' = lap + 1
                    /\ \A k \in 1..8 : reads[k].ok
                    /\ file' = [k \in 1..8 |-> reads[k].val]
                    /\ addr' = addr + chunk_bytes(file')
                    /\ bar' = addr'
                    /\ (\A k \in 1..8 : Len(reads[k].val) = 128) =>
                          addr' = addr + 1024
                    /\ (addr = 1024 * lap /\ lap' = 256
                        /\ \A k \in 1..8 : Len(reads[k].val) = 128) =>
                          bar' = 262144]_vars

\* the dump is through: 256 laps, the last of 8 reads, 256 KiB written
C29_Witness ==
    /\ pc = "done"
    /\ arg.op = "dump"
    /\ lap = laps
    /\ Len(ops) = nblocks
    /\ Len(file) = nblocks
    /\ addr = memsize
    /\ bar = memsize

\* ---- C30 ----
\* the outcomes in hand are those of a first lap: the address write's
\* comes first
FirstLapResults == Len(results) = 9

\* the outcomes of the reads in hand, and the position of the first of
\* them that failed (0 when none did)
ReadsInHand == IF FirstLapResults THEN Tail(results) ELSE results

FirstFailedRead ==
    IF \A k \in 1..Len(ReadsInHand) : ReadsInHand[k].ok THEN 0
    ELSE CHOOSE f \in 1..Len(ReadsInHand) :
             ~ReadsInHand[f].ok /\ \A k \in 1..(f - 1) : ReadsInHand[k].ok

\* C30: when the address write of the first lap or a read of any lap comes
\* back as an error, the dump ends in failure in that lap; of that lap's
\* chunks the file gets at most those read before the failed read, in
\* order (the last of them in part when the file did not take it), and
\* none at all when the address write failed; and nothing is submitted or
\* written once the dump has failed.
C30_ReadFailureAborts ==
    /\ []((Dumping /\ \E k \in 1..Len(results) : ~results[k].ok) =>
            /\ pc = "failed"
            /\ FirstLapResults <=> lap = 0
            /\ IF FirstLapResults /\ ~results[1].ok
               THEN /\ err = "failed to set address"
                    /\ file = <<>>
                    /\ addr = 0
               ELSE /\ err \in {"read failed", "write failed"}
                    /\ Len(file) < FirstFailedRead
                    /\ \A k \in 1..Len(file) :
                          /\ IsPrefix(file[k], ReadsInHand[k].val)
                          /\ k < Len(file) => file[k] = ReadsInHand[k].val
                    /\ err = "read failed" =>
                          /\ Len(file) = FirstFailedRead - 1
                          /\ \A k \in 1..Len(file) :
                                file[k] = ReadsInHand[k].val)
    /\ [][pc # "failed"]_vars

\* the fourth read of the fourth lap failed: three chunks written, the
\* fifth, although read, is not
C30_Witness ==
    /\ pc = "failed"
    /\ arg.op = "dump"
    /\ lap = 3
    /\ FirstFailedRead = 4
    /\ ReadsInHand[5].ok
    /\ Len(file) = 3
    /\ addr = 3 * 1024 + 3 * 128

\* ---- C31 ----
\* what an operation adds to the operand stack: Push and PushNone add one
\* entry, DropN(n) takes n off the top, Call and Done leave it as it is
Effect(o) ==
    CASE o.op \in {"Push", "PushNone"} -> 1
      [] o.op = "DropN" -> 0 - o.val
      [] OTHER -> 0

RECURSIVE DepthsOf(_, _, _, _)
\* the number of entries on the stack after each of the operations lo..hi
\* of o, with d entries before them
DepthsOf(o, lo, hi, d) ==
    IF lo > hi THEN <<>>
    ELSE IF lo = hi THEN <<d + Effect(o[lo])>>
    ELSE LET mid == (lo + hi) \div 2
             left == DepthsOf(o, lo, mid, d)
         IN  left \o DepthsOf(o, mid + 1, hi, left[Len(left)])

Depths(o, d) == DepthsOf(o, 1, Len(o), d)

\* C31: in every batch the flash path puts together, the first five
\* operations push the base entries, from then on the stack never holds
\* fewer than these five, after every DropN it holds exactly these five,
\* every call is followed by a DropN, and the batch ends with Done on a
\* stack of five.
C31_StackBalanced ==
    (Returned("batch_ops") /\ ret.outcome = "Ok") =>
        LET o == ret.ops
            d == Depths(o, 0)
        IN  /\ Len(o) > 5
            /\ \A k \in 1..5 : o[k].op \in {"Push", "PushNone"}
            /\ \A k \in 5..Len(o) : d[k] >= 5
            /\ \A k \in 1..Len(o) : o[k].op = "DropN" => d[k] = 5
            /\ \A k \in 1..Len(o) : o[k].op = "Call" => o[k + 1].op = "DropN"
            /\ o[Len(o)] = Done
            /\ d[Len(o)] = 5
            /\ \A k \in 1..(Len(o) - 1) : o[k] # Done

\* a write batch of 32 records put together without a mux
C31_Witness ==
    /\ Returned("batch_ops")
    /\ arg.in.batch = "write"
    /\ arg.in.data = "long"
    /\ ~arg.in.mux
    /\ ret.outcome = "Ok"
    /\ Cardinality({k \in 1..Len(ret.ops) : ret.ops[k].op = "Call"}) = 32

\* ---- C32 ----
\* the file passed the check of the number of records with two headers or
\* more
CountCheckPassed ==
    /\ AllAccepted
    /\ Len(headers) >= 2
    /\ Len(headers[1]) = 5
    /\ FirstHeaderId \in {v[3] : v \in Variants}
    /\ Len(headers) + Len(hexdata) = ExpectedLines

\* crc_line - headers.len() - 2 in the integers
CrcIndex == (IF ExpectedLines = 582 THEN 526 ELSE 600) - Len(headers) - 2

\* C32: for every file that passed the record-count check with two
\* headers or more, the index of the CRC record is not negative and below
\* the number of data records, and an Image that is returned has two data
\* records or more.
C32_CrcIndexInRange ==
    (Returned("from_file") /\ CountCheckPassed) =>
        /\ CrcIndex >= 0
        /\ CrcIndex < Len(hexdata)
        /\ ret.outcome = "Ok" => Len(ret.hex.data) >= 2

\* ---- C33 ----
\* the step in which the search declares synchronization
SyncDeclared == state = "SyncSearching" /\ state' = "Ingesting"

\* C33: synchronization is declared only on a 0x80 byte that immediately
\* follows a run of at least 5 consecutive 0x00 bytes; zeros that a 0x80 or
\* another non-zero byte interrupts before the run reaches 5 do not count.
C33_SyncAfterFiveZeros ==
    [][SyncDeclared => (datum' = 128 /\ zeros >= 5)]_vars

\* ---- C34 ----
\* the payload length a header of a compressed kind requires, given the
\* payload bytes so far: the position of the first byte with the top bit,
\* 4 at most, and one more byte than there are while neither is reached
CompressedSize(p) ==
    LET ends == {k \in 1..Len(p) : k = 4 \/ p[k] >= 128}
    IN  IF ends = {} THEN Len(p) + 1
        ELSE CHOOSE k \in ends : \A j \in ends : k <= j

\* the payload length the header h requires
Required(h, p) ==
    CASE h.kind = "Sync" -> 5
      [] h.kind \in {"Overflow", "LocalTimestamp2"} -> 0
      [] h.kind = "GlobalTimestamp2" -> 4
      [] h.kind \in {"Instrumentation", "Hardware"} ->
            IF h.ss = 1 THEN 1 ELSE IF h.ss = 2 THEN 2 ELSE 4
      [] OTHER -> CompressedSize(p)

\* no call of the closure has returned an error, so that the reader
\* certainly goes on
NoErrorReturned == pc = "ingest"

\* one byte arriving after synchronization: it is the header when one is
\* awaited and a payload byte otherwise; the packet is handed to the
\* callback, once, when the payload has the length the header requires
Framed ==
    (state = "Ingesting" /\ NoErrorReturned /\ datum' \in 0..255) =>
        /\ pstate \in {"AwaitingHeader", "AwaitingPayload"}
        /\ err' # "unexpected packet state"
        /\ pstate = "AwaitingHeader" =>
              (hdr' = itm_hdrs[datum'] /\ hdr' \in ITMHeaders /\ vec' = <<>>)
        /\ pstate = "AwaitingPayload" =>
              (hdr' = hdr /\ vec' = Append(vec, datum'))
        /\ Len(vec') <= Required(hdr', vec')
        /\ Required(hdr', vec') \in 0..5
        /\ hdr'.kind \in {"LocalTimestamp1", "GlobalTimestamp1",
                          "Extension"} =>
              Required(hdr', vec') \in 1..4
        /\ IF Len(vec') = Required(hdr', vec')
           THEN /\ ncalls' = ncalls + 1
                /\ packet'.header = hdr'
                /\ packet'.payload = itm_payload_decode(hdr', vec')
                /\ NoErrorReturned' => pstate' = "AwaitingHeader"
           ELSE /\ ncalls' = ncalls
                /\ packet' = NoPacket
                /\ pstate' = "AwaitingPayload"
                /\ NoErrorReturned'

\* C34: the callback is never invoked before synchronization; after it, a
\* byte arriving while a header is awaited is taken as a header and the
\* following bytes as payload until the payload length reaches the size
\* the header requires (Sync 5; Overflow and LocalTimestamp2 0;
\* GlobalTimestamp2 4; Instrumentation and Hardware 1, 2 or 4 for ss = 1,
\* 2, 3; LocalTimestamp1, GlobalTimestamp1 and Extension between 1 and 4),
\* at which point the callback is invoked exactly once for that packet and
\* the next byte is again a header; the packet state is never Complete
\* when a byte arrives, so the panic "unexpected packet state" is
\* unreachable, and the payload buffer never exceeds 5 bytes.  All of it is
\* asked only of an ingest in which no call of the closure has returned an
\* error.
C34_Framing ==
    /\ [](state = "SyncSearching" => (ncalls = 0 /\ packet = NoPacket))
    /\ [](NoErrorReturned => pstate # "Complete")
    /\ [](Len(vec) <= 5)
    /\ [][Framed]_vars

====
